---- MODULE Spec2Model ----
(***************************************************************************)
(* Model of lazy-email-to-spreadsheet: the status priority table, the      *)
(* company/role normalizers, the processing-state ledger (StateManager)    *)
(* and the reconciliation part of process_emails against the sheet.        *)
(*                                                                         *)
(* Strings are TLC strings; a character is a string of length one.         *)
(* Input strings are drawn from letters, digits, blanks and punctuation    *)
(* (no line breaks).                                                       *)
(***************************************************************************)
EXTENDS Integers, Sequences, FiniteSets, TLC

(***************************************************************************)
(* Python string primitives used by models/email.py                        *)
(***************************************************************************)
Char(s, i) == SubSeq(s, i, i)

UpperCase == "ABCDEFGHIJKLMNOPQRSTUVWXYZ"
LowerCase == "abcdefghijklmnopqrstuvwxyz"
DigitChars == "0123456789"

IndexIn(c, str) ==
    IF \E i \in 1..Len(str) : Char(str, i) = c
    THEN CHOOSE i \in 1..Len(str) : Char(str, i) = c
    ELSE 0

LowerChar(c) ==
    LET i == IndexIn(c, UpperCase) IN IF i > 0 THEN Char(LowerCase, i) ELSE c

UpperChar(c) ==
    LET i == IndexIn(c, LowerCase) IN IF i > 0 THEN Char(UpperCase, i) ELSE c

RECURSIVE upper(_)
upper(s) == IF s = "" THEN "" ELSE UpperChar(Char(s, 1)) \o upper(Tail(s))

RECURSIVE lower(_)
lower(s) == IF s = "" THEN "" ELSE LowerChar(Char(s, 1)) \o lower(Tail(s))

\* \s of the regular expressions, over the input alphabet
IsSpace(c) == c \in {" ", "\t"}

\* \d
IsDigit(c) == IndexIn(c, DigitChars) > 0

\* \w
IsWordChar(c) ==
    \/ IndexIn(c, LowerCase) > 0
    \/ IndexIn(c, UpperCase) > 0
    \/ IsDigit(c)
    \/ c = "_"

RECURSIVE lstrip(_)
lstrip(s) == IF s # "" /\ IsSpace(Char(s, 1)) THEN lstrip(Tail(s)) ELSE s

RECURSIVE rstrip(_)
rstrip(s) ==
    IF s # "" /\ IsSpace(Char(s, Len(s)))
    THEN rstrip(SubSeq(s, 1, Len(s) - 1))
    ELSE s

strip(s) == rstrip(lstrip(s))

EndsWith(s, suf) ==
    Len(s) >= Len(suf) /\ SubSeq(s, Len(s) - Len(suf) + 1, Len(s)) = suf

\* re.sub(r"\s+", " ", s)
RECURSIVE CollapseSpaces(_)
CollapseSpaces(s) ==
    IF s = "" THEN ""
    ELSE IF IsSpace(Char(s, 1))
         THEN " " \o CollapseSpaces(lstrip(s))
         ELSE Char(s, 1) \o CollapseSpaces(Tail(s))

\* re.sub(r"[^\w\s]", " ", s)
RECURSIVE PunctToSpace(_)
PunctToSpace(s) ==
    IF s = "" THEN ""
    ELSE (IF IsWordChar(Char(s, 1)) \/ IsSpace(Char(s, 1)) THEN Char(s, 1) ELSE " ")
         \o PunctToSpace(Tail(s))

(***************************************************************************)
(* normalize_company_name                                                  *)
(***************************************************************************)
\* the suffix patterns ",?\s*<word>\.?$" in order; dot = the pattern has \.?
suffixes_to_remove ==
    << [word |-> "inc", dot |-> TRUE],
       [word |-> "llc", dot |-> TRUE],
       [word |-> "ltd", dot |-> TRUE],
       [word |-> "corp", dot |-> TRUE],
       [word |-> "corporation", dot |-> FALSE],
       [word |-> "company", dot |-> FALSE],
       [word |-> "co", dot |-> TRUE],
       [word |-> "incorporated", dot |-> FALSE],
       [word |-> "limited", dot |-> FALSE],
       [word |-> "gmbh", dot |-> FALSE],
       [word |-> "plc", dot |-> TRUE] >>

\* re.sub(suffix, "", s): the leftmost match of ,?\s*word\.?$ is removed
RemoveSuffix(s, suf) ==
    LET before == IF suf.dot /\ EndsWith(s, suf.word \o ".")
                  THEN Len(s) - Len(suf.word) - 1
                  ELSE IF EndsWith(s, suf.word)
                       THEN Len(s) - Len(suf.word)
                       ELSE -1
    IN IF before = -1 THEN s
       ELSE LET w == Len(rstrip(SubSeq(s, 1, before)))
                c == IF w > 0 /\ Char(s, w) = "," THEN w - 1 ELSE w
            IN SubSeq(s, 1, c)

RECURSIVE RemoveSuffixes(_, _)
RemoveSuffixes(s, k) ==
    IF k > Len(suffixes_to_remove) THEN s
    ELSE RemoveSuffixes(RemoveSuffix(s, suffixes_to_remove[k]), k + 1)

normalize_company_name(name) ==
    IF name = "" THEN ""
    ELSE strip(CollapseSpaces(PunctToSpace(RemoveSuffixes(strip(lower(name)), 1))))

(***************************************************************************)
(* normalize_role                                                          *)
(***************************************************************************)
abbreviations ==
    << [abbrev |-> "swe", expansion |-> "software engineer"],
       [abbrev |-> "sde", expansion |-> "software development engineer"],
       [abbrev |-> "ml", expansion |-> "machine learning"],
       [abbrev |-> "ai", expansion |-> "artificial intelligence"],
       [abbrev |-> "fe", expansion |-> "frontend"],
       [abbrev |-> "be", expansion |-> "backend"],
       [abbrev |-> "qa", expansion |-> "quality assurance"],
       [abbrev |-> "ui", expansion |-> "user interface"],
       [abbrev |-> "ux", expansion |-> "user experience"] >>

\* \b in front of position i, where position i holds a word character
BoundaryBefore(s, i) == i = 1 \/ ~IsWordChar(Char(s, i - 1))

\* \b behind position i, where position i holds a word character
BoundaryAfter(s, i) == i = Len(s) \/ ~IsWordChar(Char(s, i + 1))

\* \bw\b matches at position i
WordAt(s, i, w) ==
    /\ BoundaryBefore(s, i)
    /\ i + Len(w) - 1 <= Len(s)
    /\ SubSeq(s, i, i + Len(w) - 1) = w
    /\ BoundaryAfter(s, i + Len(w) - 1)

\* re.sub(r"\bw\b", r, s) from position i on
RECURSIVE SubWord(_, _, _, _)
SubWord(s, i, w, r) ==
    IF i > Len(s) THEN ""
    ELSE IF WordAt(s, i, w)
         THEN r \o SubWord(s, i + Len(w), w, r)
         ELSE Char(s, i) \o SubWord(s, i + 1, w, r)

RECURSIVE ExpandAbbreviations(_, _)
ExpandAbbreviations(s, k) ==
    IF k > Len(abbreviations) THEN s
    ELSE ExpandAbbreviations(
             SubWord(s, 1, abbreviations[k].abbrev, abbreviations[k].expansion),
             k + 1)

seasons == {"summer", "fall", "spring", "winter"}

\* first position at or after i that holds no blank
RECURSIVE SkipSpaces(_, _)
SkipSpaces(s, i) ==
    IF i <= Len(s) /\ IsSpace(Char(s, i)) THEN SkipSpaces(s, i + 1) ELSE i

FourDigitsAt(s, k) ==
    /\ k + 3 <= Len(s)
    /\ \A j \in k..(k + 3) : IsDigit(Char(s, j))
    /\ BoundaryAfter(s, k + 3)

\* \b(summer|fall|spring|winter)\s*\d{4}\b at position i: the position after
\* the match, 0 when there is no match
SeasonYearEnd(s, i) ==
    IF BoundaryBefore(s, i)
       /\ \E t \in seasons :
             /\ i + Len(t) - 1 <= Len(s)
             /\ SubSeq(s, i, i + Len(t) - 1) = t
             /\ FourDigitsAt(s, SkipSpaces(s, i + Len(t)))
    THEN LET t == CHOOSE t \in seasons :
                     /\ i + Len(t) - 1 <= Len(s)
                     /\ SubSeq(s, i, i + Len(t) - 1) = t
         IN SkipSpaces(s, i + Len(t)) + 4
    ELSE 0

RECURSIVE RemoveSeasonYears(_, _)
RemoveSeasonYears(s, i) ==
    IF i > Len(s) THEN ""
    ELSE IF SeasonYearEnd(s, i) > 0
         THEN RemoveSeasonYears(s, SeasonYearEnd(s, i))
         ELSE Char(s, i) \o RemoveSeasonYears(s, i + 1)

\* \b20\d{2}\b at position i
YearAt(s, i) ==
    /\ BoundaryBefore(s, i)
    /\ i + 3 <= Len(s)
    /\ SubSeq(s, i, i + 1) = "20"
    /\ IsDigit(Char(s, i + 2))
    /\ IsDigit(Char(s, i + 3))
    /\ BoundaryAfter(s, i + 3)

RECURSIVE RemoveYears(_, _)
RemoveYears(s, i) ==
    IF i > Len(s) THEN ""
    ELSE IF YearAt(s, i)
         THEN RemoveYears(s, i + 4)
         ELSE Char(s, i) \o RemoveYears(s, i + 1)

\* a normalizer that leaves the seasons and the years in the role
normalize_role_keeps_years(role) ==
    IF role = "" THEN ""
    ELSE strip(CollapseSpaces(
             SubWord(ExpandAbbreviations(strip(lower(role)), 1), 1, "internship", "intern")))

normalize_role(role) ==
    IF role = "" THEN ""
    ELSE strip(CollapseSpaces(
             RemoveYears(
                 RemoveSeasonYears(
                     SubWord(ExpandAbbreviations(strip(lower(role)), 1),
                             1, "internship", "intern"),
                     1),
                 1)))

(***************************************************************************)
(* models/email.py : ApplicationStatus and the status priority             *)
(***************************************************************************)
Status == {"SUBMITTED", "REJECTED", "INTERVIEW", "OA_INVITE", "NA"}

\* ApplicationStatus.value
StatusValue(st) ==
    CASE st = "SUBMITTED" -> "Submitted Application - Pending Response"
      [] st = "REJECTED" -> "Rejected"
      [] st = "INTERVIEW" -> "Interview"
      [] st = "OA_INVITE" -> "OA Invite"
      [] st = "NA" -> "N/A"

\* a priority table with two neighbouring ranks exchanged
STATUS_PRIORITY_exchanged(st) ==
    CASE st = "NA" -> 0
      [] st = "SUBMITTED" -> 1
      [] st = "OA_INVITE" -> 3
      [] st = "INTERVIEW" -> 2
      [] st = "REJECTED" -> 4

STATUS_PRIORITY(st) ==
    CASE st = "NA" -> 0
      [] st = "SUBMITTED" -> 1
      [] st = "OA_INVITE" -> 2
      [] st = "INTERVIEW" -> 3
      [] st = "REJECTED" -> 4

\* a comparison that also lets an equal status overwrite
should_update_status_or_equal(existing, new) ==
    STATUS_PRIORITY(new) >= STATUS_PRIORITY(existing)

should_update_status(existing, new) ==
    STATUS_PRIORITY(new) > STATUS_PRIORITY(existing)

(***************************************************************************)
(* llm/extractor.py : the response of the LLM and its parsing              *)
(***************************************************************************)
\* Python values as json.loads gives them: a string, a number, None, a list;
\* Missing stands for a key the object does not have
Str(text) == [t |-> "str", s |-> text, n |-> 0, items |-> <<>>]
Num(number) == [t |-> "num", s |-> "", n |-> number, items |-> <<>>]
PyNone == [t |-> "null", s |-> "", n |-> 0, items |-> <<>>]
List(values) == [t |-> "list", s |-> "", n |-> 0, items |-> values]
Missing == [t |-> "missing", s |-> "", n |-> 0, items |-> <<>>]

\* bool(value)
Truthy(v) ==
    CASE v.t = "str" -> v.s # ""
      [] v.t = "num" -> v.n # 0
      [] v.t = "list" -> v.items # <<>>
      [] OTHER -> FALSE

\* repr(value)
RECURSIVE Repr(_)
RECURSIVE ReprItems(_, _)
Repr(v) ==
    CASE v.t = "str" -> "'" \o v.s \o "'"
      [] v.t = "num" -> ToString(v.n)
      [] v.t = "list" -> "[" \o ReprItems(v.items, 1) \o "]"
      [] OTHER -> "None"

ReprItems(values, k) ==
    IF k > Len(values) THEN ""
    ELSE Repr(values[k]) \o (IF k < Len(values) THEN ", " ELSE "") \o ReprItems(values, k + 1)

\* str(value)
PyStr(v) == IF v.t = "str" THEN v.s ELSE Repr(v)

\* sub in s
Contains(s, sub) ==
    \E i \in 1..(Len(s) - Len(sub) + 1) : SubSeq(s, i, i + Len(sub) - 1) = sub

DEFAULT_COMPANY_NAME == "DEFAULT (INPUT MANUALLY)"
DEFAULT_ROLE == "SWE Default"

unknown_patterns ==
    {"unknown", "n/a", "na", "not specified", "not found", "not in email", "not mentioned",
     "cannot determine", "could not determine", "unclear", "none", "null", "not available", ""}

\* models/email.py: is_unknown_value, of a string
is_unknown_value(value) ==
    \/ value = ""
    \/ strip(lower(value)) \in unknown_patterns
    \/ \E pattern \in {"not in email content", "cannot be determined", "not provided"} :
          Contains(strip(lower(value)), pattern)

\* the dictionary in the order of its keys
STATUS_MAPPINGS ==
    << <<"submitted", "SUBMITTED">>, <<"application received", "SUBMITTED">>,
       <<"application submitted", "SUBMITTED">>, <<"pending", "SUBMITTED">>,
       <<"under review", "SUBMITTED">>, <<"received", "SUBMITTED">>,
       <<"confirmed", "SUBMITTED">>, <<"applied", "SUBMITTED">>,
       <<"rejected", "REJECTED">>, <<"not selected", "REJECTED">>,
       <<"unsuccessful", "REJECTED">>, <<"declined", "REJECTED">>,
       <<"not moving forward", "REJECTED">>, <<"position filled", "REJECTED">>,
       <<"closed", "REJECTED">>,
       <<"interview", "INTERVIEW">>, <<"interview scheduled", "INTERVIEW">>,
       <<"phone screen", "INTERVIEW">>, <<"technical interview", "INTERVIEW">>,
       <<"onsite", "INTERVIEW">>, <<"final round", "INTERVIEW">>,
       <<"hiring manager", "INTERVIEW">>,
       <<"oa", "OA_INVITE">>, <<"oa invite", "OA_INVITE">>,
       <<"online assessment", "OA_INVITE">>, <<"coding challenge", "OA_INVITE">>,
       <<"assessment", "OA_INVITE">>, <<"hackerrank", "OA_INVITE">>,
       <<"codility", "OA_INVITE">>, <<"codesignal", "OA_INVITE">>,
       <<"take home", "OA_INVITE">>, <<"technical assessment", "OA_INVITE">>,
       <<"n/a", "NA">>, <<"na", "NA">>, <<"unknown", "NA">>, <<"unclear", "NA">>,
       <<"other", "NA">> >>

_map_status_to_enum(status_raw) ==
    LET status_lower == strip(lower(status_raw))
        direct == {k \in 1..Len(STATUS_MAPPINGS) : STATUS_MAPPINGS[k][1] = status_lower}
        partial == {k \in 1..Len(STATUS_MAPPINGS) :
                       \/ Contains(status_lower, STATUS_MAPPINGS[k][1])
                       \/ Contains(STATUS_MAPPINGS[k][1], status_lower)}
        First(K) == CHOOSE k \in K : \A j \in K : k <= j
    IN IF direct # {} THEN STATUS_MAPPINGS[First(direct)][2]
       ELSE IF partial # {} THEN STATUS_MAPPINGS[First(partial)][2]
       ELSE "NA"

\* models/email.py: LLMExtractionResult() with the defaults of its fields
LLMExtractionResult ==
    [company_name |-> DEFAULT_COMPANY_NAME, role |-> DEFAULT_ROLE, status_raw |-> "N/A"]

\* data.get(key, default) followed by "value[0] if value else default" for a list
FieldOf(v, default) ==
    LET got == IF v.t = "missing" THEN Str(default) ELSE v
    IN IF got.t = "list"
       THEN (IF got.items # <<>> THEN got.items[1] ELSE Str(default))
       ELSE got

\* str(value) if value else default
StrOr(v, default) == IF Truthy(v) THEN PyStr(v) ELSE default

\* a parser that keeps what the LLM gave for company and role
_parse_llm_response_as_given(response) ==
    CASE response.json = "invalid" -> [raised |-> "none", result |-> LLMExtractionResult]
      [] response.json = "other" -> [raised |-> "AttributeError", result |-> LLMExtractionResult]
      [] OTHER ->
           [raised |-> "none",
            result |-> [company_name |-> StrOr(FieldOf(response.company_name, ""), ""),
                        role |-> StrOr(FieldOf(response.role, ""), ""),
                        status_raw |-> StrOr(FieldOf(response.status, "n/a"), "n/a")]]

\* _parse_llm_response(response_text); the response is the text with the
\* code fences and the blanks around it removed: text that is no JSON
\* ("invalid"), JSON that is no object ("other": data.get raises
\* AttributeError, which is not caught), or an object with its three keys
_parse_llm_response(response) ==
    CASE response.json = "invalid" -> [raised |-> "none", result |-> LLMExtractionResult]
      [] response.json = "other" -> [raised |-> "AttributeError", result |-> LLMExtractionResult]
      [] OTHER ->
           LET company == StrOr(FieldOf(response.company_name, ""), "")
               role == StrOr(FieldOf(response.role, ""), "")
               status == StrOr(FieldOf(response.status, "n/a"), "n/a")
           IN [raised |-> "none",
               result |-> [company_name |-> IF is_unknown_value(company)
                                            THEN DEFAULT_COMPANY_NAME ELSE company,
                           role |-> IF is_unknown_value(role) THEN DEFAULT_ROLE ELSE role,
                           status_raw |-> status]]

\* extract_from_email(email) for the response the LLM gives: the exception
\* raised and the JobApplications produced (one, or none when it raises)
extract_from_email(response, date_sent, email_link) ==
    LET extraction == _parse_llm_response(response)
    IN [raised |-> extraction.raised,
        produced |-> IF extraction.raised # "none" THEN <<>>
                     ELSE << [company_name |-> extraction.result.company_name,
                              role |-> extraction.result.role,
                              status |-> _map_status_to_enum(extraction.result.status_raw),
                              date_submitted |-> date_sent,
                              email_link |-> email_link] >>]

(***************************************************************************)
(* Bounds of the model                                                     *)
(***************************************************************************)
\* emails in the inbox
MaxEmails == 2
\* data rows of the sheet before the first run
MaxInitRows == 1
\* runs of the program
MaxRuns == 2
\* SHEETS_BATCH_SIZE of the runs
SheetsBatchSize == 1
\* largest flush interval a StateManager is constructed with
MaxInterval == 2
\* cap on the total_processed counter
MaxProcessed == 4
\* cap on the total_written counter
MaxWritten == 1
\* cap on the _unsaved_count counter
MaxUnsaved == 3
\* failures the environment of the runs injects in one behaviour
MaxFaults == 1
\* jobs handed to one append_rows call
MaxJobs == 5
\* largest batch_size of a SheetsClient
MaxBatchSize == 3
\* pages the Gmail API holds for one query
MaxPages == 3
\* messages on one page
MaxPageSize == 2
\* largest max_results of a listing
MaxResults == 4

None == "None"
\* datetime.now().isoformat(), one abstract instant
Timestamp == "2026-01-01T00:00:00"

\* message ids the ledger operations are called with
MessageIds == {"m1", "m2"}
\* --since values
SinceDates == {"2026-01-01"}

Range(seq) == {seq[k] : k \in 1..Len(seq)}

\* the orders in which list(a_set) can enumerate a set
Orders(S) ==
    {q \in [1..Cardinality(S) -> S] : \A a, b \in 1..Cardinality(S) : a # b => q[a] # q[b]}

(***************************************************************************)
(* The program state                                                       *)
(***************************************************************************)
VARIABLES
    state,           \* StateManager.state : ProcessingState
    unsaved_count,   \* StateManager._unsaved_count
    save_interval,   \* StateManager.save_interval
    state_file,      \* content of the state file: Absent, Corrupt or the JSON object
    lastOp,          \* the ledger operation that returned last (load_fresh: a load()
                     \* that was the first call on a new instance)
    loadResult,      \* what the last load() returned
    lastSaved,       \* history: the in-memory state the file was written from, invalid when
                     \* the file does not stem from a successful save
    markLog,         \* history: ids of the mark_processed calls of an auto-flush-only session
    autoRun,         \* history: since construction over no file only auto-saving
                     \* mark_processed calls were made and no save failed
    autoFlush,       \* history: every mark_processed so far had auto_save and no save failed
    pending,         \* history: mark_processed calls since the ledger last matched the file
    saveCount,       \* history: save() executions of an auto-flush-only session
    observe,         \* which of the histories below the specification records:
                     \* "queries", "failures"
    query,           \* history: the get_unprocessed call, when it was the last operation
    restored,        \* history: the processed ids the last reset(), load() or
                     \* construction left in memory
    markedSince,     \* history: the ids passed to mark_processed since the last
                     \* reset(), load() or construction
    saveOutcome,     \* history: how the save() executed by the last operation ended,
                     \* "none" when it executed none
    saveFailing,     \* history: a save() has failed and none has succeeded since
    whileFailing,    \* history: the ids marked while saveFailing, kept until the
                     \* operation after the save() that succeeded
    inFlight,        \* history: the ids of the records whose extraction or sheet write
                     \* was in progress when the signal arrived
    call,            \* history: the last call of extract_from_email or of a
                     \* normalizer, with its arguments and what it gave
    resume,          \* history: the handle_resume_prompt call, when it was the last
                     \* operation: who called, the ledger it was called on, the
                     \* prompt shown, the answer, the value returned
    faults,          \* the kinds of failure the environment of the runs produces:
                     \* "sheet" (Sheets API errors), "llm" (LLMExtractorError),
                     \* "file" (errors writing the state file), "signal" (SIGINT
                     \* or SIGTERM sent to the process), "config" (a prerequisite
                     \* that is not met)
    injected,        \* the failures the environment has produced so far
    inbox,           \* the messages fetch_messages returns, in order
    sheet,           \* the rows of the spreadsheet, the header row first
    extracted,       \* what the extractor has returned for each email so far
    pc,              \* position of the run in main() / process_emails
    run,             \* runs of the program started so far
    emails_to_process,
    idx,             \* index of the loop in progress
    applications,
    existing_apps,
    new_applications,
    updates_count,
    skipped_count,
    snapshot,        \* history: existing_apps as get_existing_applications returned it
    updateLog,       \* history: the update_row calls of this run
    appendLog,       \* history: the list handed to append_rows in this run
    clean,           \* history: no sheet call of this run has failed
    decision,        \* history: the last evaluation of should_update_status
    prevRun          \* history: applications and clean of the previous run

ledgerVars == <<state, unsaved_count, save_interval, state_file>>
traceVars == <<observe, query, restored, markedSince, saveOutcome, saveFailing, whileFailing,
               inFlight, resume, call>>
historyVars == <<lastOp, loadResult, lastSaved, markLog, autoRun, autoFlush, pending, saveCount,
                 traceVars>>
pipeVars == <<faults, injected, inbox, sheet, extracted, pc, run, emails_to_process, idx, applications, existing_apps,
              new_applications, updates_count, skipped_count, snapshot, updateLog,
              appendLog, clean, decision, prevRun>>
vars == <<ledgerVars, historyVars, pipeVars>>

(***************************************************************************)
(* state/__init__.py : ProcessingState and StateManager                    *)
(***************************************************************************)
ProcessingState ==
    [processed_ids |-> {}, last_processed_id |-> None, last_run |-> None,
     since_date |-> None, total_processed |-> 0, total_written |-> 0]

\* the state file: no file, a file of unparseable text, a file holding a JSON object
NoData == [ProcessingState EXCEPT !.processed_ids = <<>>]
Absent == [kind |-> "absent", data |-> NoData]
Corrupt == [kind |-> "corrupt", data |-> NoData]
JsonFile(data) == [kind |-> "json", data |-> data]

\* model_dump() with processed_ids turned into a list, as json.dump writes it
Serialize(st, order) == JsonFile([st EXCEPT !.processed_ids = order])

\* a load that does not restore the processed counter
Deserialize_no_total(file) ==
    [file.data EXCEPT !.processed_ids = Range(file.data.processed_ids),
                      !.total_processed = 0]

\* json.load() with processed_ids turned back into a set, as ProcessingState(**data)
Deserialize(file) == [file.data EXCEPT !.processed_ids = Range(file.data.processed_ids)]

SaveOutcomes == {"ok", "open_error", "write_error"}

\* a save() that does not restart the unsaved count
save_no_restart(st, uc, file, outcome, order) ==
    LET stamped == [st EXCEPT !.last_run = Timestamp]
    IN CASE outcome = "ok" ->
              [state |-> stamped, unsaved_count |-> uc,
               state_file |-> Serialize(stamped, order)]
         [] outcome = "open_error" ->
              [state |-> stamped, unsaved_count |-> uc, state_file |-> file]
         [] outcome = "write_error" ->
              [state |-> stamped, unsaved_count |-> uc, state_file |-> Corrupt]

\* a save() that forgets the processed ids when the file cannot be opened
save_or_forget(st, uc, file, outcome, order) ==
    LET stamped == [st EXCEPT !.last_run = Timestamp]
    IN CASE outcome = "ok" ->
              [state |-> stamped, unsaved_count |-> 0,
               state_file |-> Serialize(stamped, order)]
         [] outcome = "open_error" ->
              [state |-> [stamped EXCEPT !.processed_ids = {}],
               unsaved_count |-> uc, state_file |-> file]
         [] outcome = "write_error" ->
              [state |-> stamped, unsaved_count |-> uc, state_file |-> Corrupt]

\* StateManager.save: the ledger after save(), for an outcome of the file write
save(st, uc, file, outcome, order) ==
    LET stamped == [st EXCEPT !.last_run = Timestamp]
    IN CASE outcome = "ok" ->
              [state |-> stamped, unsaved_count |-> 0,
               state_file |-> Serialize(stamped, order)]
         [] outcome = "open_error" ->
              [state |-> stamped, unsaved_count |-> uc, state_file |-> file]
         [] outcome = "write_error" ->
              [state |-> stamped, unsaved_count |-> uc, state_file |-> Corrupt]

\* an auto-save condition that fires one call late
AutoSaveDue_late(uc, interval) == uc > interval

\* the auto-save condition of mark_processed
AutoSaveDue(uc, interval) == uc >= interval

\* whether mark_processed(id, auto_save) calls save()
MarkSaves(uc, interval, auto_save) == auto_save /\ AutoSaveDue(uc + 1, interval)

\* a mark_processed that counts the call and forgets the id
mark_processed_forgets(st, uc, interval, file, id, auto_save, outcome, order) ==
    LET marked == [st EXCEPT !.last_processed_id = id, !.total_processed = @ + 1]
    IN IF MarkSaves(uc, interval, auto_save)
       THEN save(marked, uc + 1, file, outcome, order)
       ELSE [state |-> marked, unsaved_count |-> uc + 1, state_file |-> file]

\* a mark_processed that counts an id once
mark_processed_once(st, uc, interval, file, id, auto_save, outcome, order) ==
    LET marked == [st EXCEPT !.processed_ids = @ \cup {id},
                             !.last_processed_id = id,
                             !.total_processed = IF id \in st.processed_ids THEN @ ELSE @ + 1]
    IN IF MarkSaves(uc, interval, auto_save)
       THEN save(marked, uc + 1, file, outcome, order)
       ELSE [state |-> marked, unsaved_count |-> uc + 1, state_file |-> file]

\* StateManager.mark_processed
mark_processed(st, uc, interval, file, id, auto_save, outcome, order) ==
    LET marked == [st EXCEPT !.processed_ids = @ \cup {id},
                             !.last_processed_id = id,
                             !.total_processed = @ + 1]
    IN IF MarkSaves(uc, interval, auto_save)
       THEN save(marked, uc + 1, file, outcome, order)
       ELSE [state |-> marked, unsaved_count |-> uc + 1, state_file |-> file]

\* a mark_written that sets the total instead of adding to it
mark_written_sets(st, count) == [st EXCEPT !.total_written = count]

\* StateManager.mark_written
mark_written(st, count) == [st EXCEPT !.total_written = @ + count]

\* StateManager.set_since_date
set_since_date(st, since_date) == [st EXCEPT !.since_date = since_date]

\* StateManager.is_processed
is_processed(st, message_id) == message_id \in st.processed_ids

\* StateManager.load: the value it returns
load_returns(file) == file.kind = "json"

ResetOutcomes == {"ok", "unlink_error"}

\* a reset() that keeps the processed ids in memory
reset_keeps_ids(st, file, outcome) ==
    [state |-> [ProcessingState EXCEPT !.processed_ids = st.processed_ids],
     unsaved_count |-> 0,
     state_file |-> IF outcome = "ok" THEN Absent ELSE file]

\* StateManager.reset: the ledger after reset(), unlink() raising or not
reset(st, file, outcome) ==
    [state |-> ProcessingState, unsaved_count |-> 0,
     state_file |-> IF outcome = "ok" THEN Absent ELSE file]

\* StateManager.has_previous_session
has_previous_session(st, file) == file.kind # "absent" /\ Cardinality(st.processed_ids) > 0

\* the prompt handle_resume_prompt shows: "none" without a previous session,
\* "dates" (options 1/2/3) when the ledger has a since-date other than the
\* current one, "resume" (y/n) otherwise
PromptFor(st, file, since_date) ==
    IF ~has_previous_session(st, file) THEN "none"
    ELSE IF st.since_date # None /\ st.since_date # since_date THEN "dates"
    ELSE "resume"

\* the answers that end the input loop of a prompt
ValidChoices(prompt) ==
    CASE prompt = "dates" -> {"1", "2", "3"}
      [] prompt = "resume" -> {"y", "n"}
      [] OTHER -> {"none"}

\* a handle_resume_prompt that starts afresh whatever the answer
handle_resume_prompt_resets(st, uc, file, since_date, choice, unlinked) ==
    LET prompt == PromptFor(st, file, since_date)
        cleared == reset(st, file, unlinked)
    IN IF prompt = "none"
       THEN [prompt |-> prompt, returns |-> TRUE,
             state |-> st, unsaved_count |-> uc, state_file |-> file]
       ELSE [prompt |-> prompt, returns |-> choice # "3",
             state |-> set_since_date(cleared.state, since_date),
             unsaved_count |-> cleared.unsaved_count, state_file |-> cleared.state_file]

\* handle_resume_prompt(state_manager, since_date), for the answer that ends
\* its input loop
handle_resume_prompt(st, uc, file, since_date, choice, unlinked) ==
    LET prompt == PromptFor(st, file, since_date)
        cleared == reset(st, file, unlinked)
        kept == [state |-> st, unsaved_count |-> uc, state_file |-> file]
        afresh == [state |-> set_since_date(cleared.state, since_date),
                   unsaved_count |-> cleared.unsaved_count,
                   state_file |-> cleared.state_file]
        after == CASE choice = "1" -> [kept EXCEPT !.state = set_since_date(st, since_date)]
                   [] choice \in {"2", "n"} -> afresh
                   [] OTHER -> kept
    IN [prompt |-> prompt, returns |-> choice # "3",
        state |-> after.state, unsaved_count |-> after.unsaved_count,
        state_file |-> after.state_file]

\* a load() that empties the ledger when the file cannot be read
load_or_empty(st, file) == IF load_returns(file) THEN Deserialize(file) ELSE ProcessingState

\* StateManager.load: the in-memory state after it
load(st, file) == IF load_returns(file) THEN Deserialize(file) ELSE st

(***************************************************************************)
(* Inputs of the runs                                                      *)
(***************************************************************************)
\* a row is <<company, status, role, date, link>>; "" is an empty cell
HeaderRow == <<"Company Name", "Application Status", "Role", "Date Submitted", "Link">>

AllIds == <<"m1", "m2", "m3", "m4">>

\* the inboxes of the model
Inboxes == {SubSeq(AllIds, 1, n) : n \in 1..MaxEmails}

\* gmail/client.py: the link of a message
EmailLink(message_id) == "https://mail.google.com/mail/u/0/#inbox/" \o message_id

\* email.date_sent.strftime("%Y-%m-%d")
DateSent == "2026-01-15"

\* the --since argument of the runs
Since == "2026-01-01"

\* company and role as the extractor can return them, with the statuses it
\* can return for each: every status for the first, which also has a row in
\* some initial sheets; a name whose company key is empty; a third name
ExtractedNames ==
    { [company_name |-> "Acme", role |-> "SWE", statuses |-> Status],
      [company_name |-> "Inc.", role |-> "SWE", statuses |-> {"SUBMITTED"}],
      [company_name |-> "Zinc", role |-> "QA 2025", statuses |-> {"SUBMITTED"}] }

Extractable ==
    UNION { { [known |-> TRUE, company_name |-> n.company_name, role |-> n.role,
               status |-> st] : st \in n.statuses } : n \in ExtractedNames }

NotExtracted == [known |-> FALSE, company_name |-> "", role |-> "", status |-> "NA"]

\* data rows a sheet can hold before the first run
InitialRows ==
    { <<"ACME, Inc.", "Submitted Application - Pending Response", "Software Engineer",
        "2025-12-01", "https://mail.google.com/mail/u/0/#inbox/m0">>,
      <<"Acme", "Offer", "swe", "", "">> }

RECURSIVE SeqsUpTo(_, _)
SeqsUpTo(S, n) ==
    IF n = 0 THEN {<<>>}
    ELSE LET shorter == SeqsUpTo(S, n - 1)
         IN shorter \cup {Append(q, x) : q \in shorter, x \in S}

InitialSheets == {<<HeaderRow>> \o rows : rows \in SeqsUpTo(InitialRows, MaxInitRows)}

\* the company and role strings of the runs
CompanyNames == {n.company_name : n \in ExtractedNames} \cup {row[1] : row \in InitialRows}
RoleNames == {n.role : n \in ExtractedNames} \cup {row[3] : row \in InitialRows}

\* normalize_company_name and normalize_role over these strings, computed once
company_key == [name \in CompanyNames |-> normalize_company_name(name)]
role_key == [role \in RoleNames |-> normalize_role(role)]

(***************************************************************************)
(* sheets/client.py : the sheet                                            *)
(***************************************************************************)
\* a row as values().get() returns it: trailing empty cells are left out
RECURSIVE TrimRow(_)
TrimRow(row) ==
    IF row # <<>> /\ row[Len(row)] = ""
    THEN TrimRow(SubSeq(row, 1, Len(row) - 1))
    ELSE row

\* a status parser that reads an unknown string as Submitted
ParseStatus_submitted(status_str) ==
    IF \E st \in Status : StatusValue(st) = status_str
    THEN CHOOSE st \in Status : StatusValue(st) = status_str
    ELSE "SUBMITTED"

\* ApplicationStatus(status_str), ValueError turned into NA
ParseStatus(status_str) ==
    IF \E st \in Status : StatusValue(st) = status_str
    THEN CHOOSE st \in Status : StatusValue(st) = status_str
    ELSE "NA"

\* a dict with one entry set
DictSet(d, key, value) ==
    [x \in (DOMAIN d) \cup {key} |-> IF x = key THEN value ELSE d[x]]

EmptyDict == [x \in {} |-> 0]

\* SheetsClient.get_existing_applications: the loop over values[1:] from
\* sheet row i on
RECURSIVE ExistingFrom(_, _, _)
ExistingFrom(values, i, existing) ==
    IF i > Len(values) THEN existing
    ELSE LET row == TrimRow(values[i])
         IN IF Len(row) >= 3
            THEN LET company == row[1]
                     status_str == row[2]
                     role == row[3]
                     email_link == IF Len(row) > 4 THEN row[5] ELSE ""
                     key == <<company_key[company], role_key[role]>>
                 IN IF key[1] # "" /\ key[2] # ""
                    THEN ExistingFrom(values, i + 1,
                             DictSet(existing, key,
                                     [row_idx |-> i, status |-> ParseStatus(status_str),
                                      email_link |-> email_link]))
                    ELSE ExistingFrom(values, i + 1, existing)
            ELSE ExistingFrom(values, i + 1, existing)

get_existing_applications(values) == ExistingFrom(values, 2, EmptyDict)

\* SheetsClient._job_to_row
job_to_row(job) ==
    <<job.company_name, StatusValue(job.status), job.role, job.date_submitted, job.email_link>>

UpdateOutcomes == {"ok", "status_error", "link_error"}

\* SheetsClient.update_row: the sheet after the call; the status cell is
\* written first, the link cell second, either request can fail
update_row(values, row_index, status, email_link, outcome) ==
    CASE outcome = "ok" ->
           [values EXCEPT ![row_index][2] = StatusValue(status),
                          ![row_index][5] = email_link]
      [] outcome = "status_error" -> values
      [] outcome = "link_error" ->
           [values EXCEPT ![row_index][2] = StatusValue(status)]

\* the batches of append_rows
BatchCount(n, batch_size) == (n + batch_size - 1) \div batch_size

RECURSIVE RowsOf(_)
RowsOf(jobs) ==
    IF jobs = <<>> THEN <<>> ELSE <<job_to_row(Head(jobs))>> \o RowsOf(Tail(jobs))

Min(a, b) == IF a < b THEN a ELSE b

\* an append_rows that sends every row in one call
Batches_in_one(jobs, batch_size) == IF jobs = <<>> THEN <<>> ELSE <<RowsOf(jobs)>>

\* SheetsClient.append_rows: the rows of the calls of _append_rows_with_retry,
\* "for i in range(0, len(jobs), self.batch_size)"
RECURSIVE Batches(_, _)
Batches(jobs, batch_size) ==
    IF jobs = <<>> THEN <<>>
    ELSE <<RowsOf(SubSeq(jobs, 1, Min(Len(jobs), batch_size)))>>
         \o Batches(SubSeq(jobs, Min(Len(jobs), batch_size) + 1, Len(jobs)), batch_size)

\* rows of the first n batches
RECURSIVE Flatten(_, _)
Flatten(batches, n) ==
    IF n = 0 THEN <<>> ELSE Flatten(batches, n - 1) \o batches[n]

\* SheetsClient.append_rows(jobs) where the call number `failing` raises
\* SheetsClientError (0: no call fails): the calls made, the rows that
\* reached the sheet, and what is returned or raised
append_rows_calls(jobs, batch_size, failing) ==
    LET all == Batches(jobs, batch_size)
        fails == failing \in 1..Len(all)
        made == IF fails THEN failing ELSE Len(all)
        appended == Flatten(all, IF fails THEN failing - 1 ELSE Len(all))
    IN [calls |-> SubSeq(all, 1, made),
        appended |-> appended,
        raised |-> IF fails THEN "SheetsClientError" ELSE "none",
        returns |-> IF fails THEN 0 ELSE Len(appended)]

\* SheetsClient.append_rows: the sheet after the first `batches` batches were
\* appended
append_rows(values, jobs, batch_size, batches) ==
    values \o RowsOf(SubSeq(jobs, 1, Min(Len(jobs), batches * batch_size)))

(***************************************************************************)
(* main.py : main() and process_emails                                     *)
(***************************************************************************)
\* the key of the reconciliation loop
IdentityKey(app) == <<company_key[app.company_name], role_key[app.role]>>

NoDecision == [made |-> FALSE, existing |-> "NA", new |-> "NA", result |-> FALSE]

NoRun == [ran |-> FALSE, applications |-> <<>>, clean |-> FALSE]

NoCall == [op |-> "none"]

NoQuery == [asked |-> FALSE, message_ids |-> <<>>, result |-> <<>>]

NoResume == [by |-> "none", since_date |-> None, do_reset |-> FALSE, loaded |-> ProcessingState,
             prompt |-> "none", choice |-> "none", returns |-> TRUE]

\* the histories of the ledger calls before any call, `what` being recorded
TraceIdle(what) ==
    /\ observe = what
    /\ query = NoQuery
    /\ restored = {}
    /\ markedSince = {}
    /\ saveOutcome = "none"
    /\ saveFailing = FALSE
    /\ whileFailing = {}
    /\ inFlight = {}
    /\ resume = NoResume
    /\ call = NoCall

\* the variables of a run that has not started
PipeIdle ==
    /\ extracted = [id \in Range(inbox) |-> NotExtracted]
    /\ pc = "start"
    /\ run = 0
    /\ emails_to_process = <<>>
    /\ idx = 0
    /\ applications = <<>>
    /\ existing_apps = EmptyDict
    /\ new_applications = <<>>
    /\ updates_count = 0
    /\ skipped_count = 0
    /\ snapshot = EmptyDict
    /\ updateLog = <<>>
    /\ appendLog = <<>>
    /\ clean = TRUE
    /\ decision = NoDecision
    /\ prevRun = NoRun

Init ==
    /\ state = ProcessingState
    /\ unsaved_count = 0
    /\ save_interval = MaxInterval
    /\ state_file = Absent
    /\ lastOp = "new"
    /\ loadResult = FALSE
    /\ lastSaved = [valid |-> FALSE, st |-> ProcessingState]
    /\ markLog = <<>>
    /\ autoRun = FALSE
    /\ autoFlush = FALSE
    /\ pending = 0
    /\ saveCount = 0
    /\ TraceIdle({})
    /\ faults = {"sheet"}
    /\ injected = 0
    /\ inbox \in Inboxes
    /\ sheet \in InitialSheets
    /\ PipeIdle

\* the runs read the state file only through load(), which forgets the order
\* of the id list: one order stands for all of them
AnOrder(S) == CHOOSE q \in Orders(S) : TRUE

\* the outcomes the environment of the runs can produce
CanFail(kind) == kind \in faults /\ injected < MaxFaults
FileOutcomes == IF CanFail("file") THEN SaveOutcomes ELSE {"ok"}
LlmFailures == IF CanFail("llm") THEN BOOLEAN ELSE {FALSE}
SheetReads == IF CanFail("sheet") THEN BOOLEAN ELSE {TRUE}
SheetUpdates == IF CanFail("sheet") THEN UpdateOutcomes ELSE {"ok"}
SheetAppends(n) == IF CanFail("sheet") THEN 0..n ELSE {n}
UnlinkOutcomes == IF CanFail("file") THEN ResetOutcomes ELSE {"ok"}

\* the count of failures after a step in which `failed` tells whether one occurred
Injected(failed) == IF failed THEN injected + 1 ELSE injected

\* a filter that returns a repeated id once
RECURSIVE get_unprocessed_once(_, _)
get_unprocessed_once(st, message_ids) ==
    IF message_ids = <<>> THEN <<>>
    ELSE (IF Head(message_ids) \in st.processed_ids
             \/ Head(message_ids) \in Range(Tail(message_ids))
          THEN <<>> ELSE <<Head(message_ids)>>)
         \o get_unprocessed_once(st, Tail(message_ids))

\* a filter that lets every id through
get_unprocessed_all(st, message_ids) == message_ids

\* StateManager.get_unprocessed
RECURSIVE get_unprocessed(_, _)
get_unprocessed(st, message_ids) ==
    IF message_ids = <<>> THEN <<>>
    ELSE (IF Head(message_ids) \in st.processed_ids THEN <<>> ELSE <<Head(message_ids)>>)
         \o get_unprocessed(st, Tail(message_ids))

\* main(): a new StateManager (its flush interval scaled to the inbox of the
\* model) loads the state file, --reset resets it, the since-date is set;
\* then process_emails fetches the inbox and filters out the processed ids
StartRun(do_reset) ==
    /\ pc \in {"start", "done", "returned", "exited", "failed"}
    /\ run < MaxRuns
    /\ \E outcome \in (IF do_reset THEN UnlinkOutcomes ELSE {"ok"}) :
          LET loaded == load(ProcessingState, state_file)
              cleared == reset(loaded, state_file, outcome)
              st == set_since_date(IF do_reset THEN cleared.state ELSE loaded, Since)
              todo == get_unprocessed(st, inbox)
          IN /\ state' = st
             /\ state_file' = IF do_reset THEN cleared.state_file ELSE state_file
             /\ emails_to_process' = todo
             /\ pc' = IF todo = <<>> THEN "returned" ELSE "extract"
             /\ injected' = Injected(outcome # "ok")
    /\ unsaved_count' = 0
    /\ save_interval' = MaxInterval
    /\ run' = run + 1
    /\ idx' = 1
    /\ applications' = <<>>
    /\ existing_apps' = EmptyDict
    /\ new_applications' = <<>>
    /\ updates_count' = 0
    /\ skipped_count' = 0
    /\ snapshot' = EmptyDict
    /\ updateLog' = <<>>
    /\ appendLog' = <<>>
    /\ clean' = TRUE
    /\ decision' = NoDecision
    /\ prevRun' = [ran |-> run > 0 /\ pc = "done", applications |-> applications,
                   clean |-> clean]
    /\ UNCHANGED <<faults, inbox, sheet, extracted, historyVars>>

\* one pass of the extraction loop: extract_from_email returns an application
\* (the same one whenever the same email is extracted again) or raises
\* LLMExtractorError; the email is marked processed either way
ExtractEmail ==
    /\ pc = "extract"
    /\ LET id == emails_to_process[idx]
           results == IF extracted[id].known THEN {extracted[id]} ELSE Extractable
       IN \E failed \in LlmFailures, result \in results, outcome \in FileOutcomes :
             LET order == AnOrder(state.processed_ids \cup {id})
                 r == mark_processed(state, unsaved_count, save_interval, state_file,
                                     id, TRUE, outcome, order)
                 application == [company_name |-> result.company_name,
                                 role |-> result.role,
                                 status |-> result.status,
                                 date_submitted |-> DateSent,
                                 email_link |-> EmailLink(id)]
                 apps == IF failed THEN applications ELSE Append(applications, application)
             IN /\ applications' = apps
                /\ extracted' = IF failed THEN extracted
                                ELSE [extracted EXCEPT ![id] = result]
                /\ state' = r.state
                /\ unsaved_count' = r.unsaved_count
                /\ state_file' = r.state_file
                /\ injected' = Injected(failed \/ outcome # "ok")
                /\ IF idx < Len(emails_to_process)
                   THEN /\ idx' = idx + 1
                        /\ pc' = "extract"
                   ELSE /\ idx' = 1
                        /\ pc' = IF apps = <<>> THEN "returned" ELSE "load_existing"
    /\ UNCHANGED <<save_interval, historyVars, faults, inbox, sheet, run,
                   emails_to_process, existing_apps,
                   new_applications, updates_count, skipped_count, snapshot, updateLog,
                   appendLog, clean, decision, prevRun>>

\* existing_apps = sheets_client.get_existing_applications(), {} when it raises
LoadExisting ==
    /\ pc = "load_existing"
    /\ \E ok \in SheetReads :
          /\ existing_apps' = IF ok THEN get_existing_applications(sheet) ELSE EmptyDict
          /\ clean' = (clean /\ ok)
          /\ injected' = Injected(~ok)
    /\ snapshot' = existing_apps'
    /\ pc' = "reconcile"
    /\ UNCHANGED <<ledgerVars, historyVars, faults, inbox, sheet, extracted, run,
                   emails_to_process, idx,
                   applications, new_applications, updates_count, skipped_count,
                   updateLog, appendLog, decision, prevRun>>

\* a loop body that queues an in-batch duplicate again
Classify_requeue(existing, app) ==
    LET key == IdentityKey(app)
    IN IF key \in DOMAIN existing /\ existing[key].row_idx # 0
       THEN IF should_update_status(existing[key].status, app.status)
            THEN "update"
            ELSE "skip"
       ELSE "new"

\* what the loop body does with an application: "duplicate" (in-batch
\* duplicate, skipped), "update", "skip" (no status change) or "new"
Classify(existing, app) ==
    LET key == IdentityKey(app)
    IN IF key \in DOMAIN existing
       THEN IF existing[key].row_idx = 0 THEN "duplicate"
            ELSE IF should_update_status(existing[key].status, app.status)
                 THEN "update"
                 ELSE "skip"
       ELSE "new"

\* one pass of the loop "for app in applications"
Reconcile ==
    /\ pc = "reconcile"
    /\ LET app == applications[idx]
           key == IdentityKey(app)
           what == Classify(existing_apps, app)
       IN /\ CASE what = "update" ->
                    \E outcome \in SheetUpdates :
                       /\ sheet' = update_row(sheet, existing_apps[key].row_idx,
                                              app.status, app.email_link, outcome)
                       /\ updates_count' = IF outcome = "ok" THEN updates_count + 1
                                           ELSE updates_count
                       /\ updateLog' = Append(updateLog,
                              [k |-> idx, row_idx |-> existing_apps[key].row_idx,
                               status |-> app.status, email_link |-> app.email_link,
                               outcome |-> outcome])
                       /\ clean' = (clean /\ outcome = "ok")
                       /\ injected' = Injected(outcome # "ok")
                       /\ UNCHANGED <<skipped_count, new_applications, existing_apps>>
               [] what \in {"duplicate", "skip"} ->
                    /\ skipped_count' = skipped_count + 1
                    /\ UNCHANGED <<sheet, updates_count, updateLog, clean, injected,
                                   new_applications, existing_apps>>
               [] what = "new" ->
                    /\ new_applications' = Append(new_applications, app)
                    /\ existing_apps' = DictSet(existing_apps, key,
                           [row_idx |-> 0, status |-> app.status,
                            email_link |-> app.email_link])
                    /\ UNCHANGED <<sheet, updates_count, updateLog, clean, injected,
                                   skipped_count>>
          /\ decision' =
                IF key \in DOMAIN existing_apps /\ existing_apps[key].row_idx # 0
                THEN [made |-> TRUE, existing |-> existing_apps[key].status,
                      new |-> app.status,
                      result |-> should_update_status(existing_apps[key].status, app.status)]
                ELSE NoDecision
    /\ IF idx < Len(applications)
       THEN /\ idx' = idx + 1
            /\ pc' = "reconcile"
       ELSE /\ idx' = 1
            /\ pc' = "append"
    /\ UNCHANGED <<ledgerVars, historyVars, faults, inbox, extracted, run,
                   emails_to_process, applications, snapshot, appendLog, prevRun>>

\* what append_rows raises when a batch fails: SheetsClientError for an
\* HttpError that is not retried, tenacity's RetryError when the retried
\* statuses (429, 500, 503) persist through the five attempts
AppendErrors(batches, n) ==
    IF batches = n THEN {"none"} ELSE {"SheetsClientError", "RetryError"}

\* "if new_applications:" append_rows and mark_written, nothing written being
\* counted when a batch fails; a SheetsClientError is caught in place, a
\* RetryError leaves process_emails and reaches the "except Exception" of
\* main(), which saves the ledger and returns 1
AppendNew ==
    /\ pc = "append"
    /\ IF new_applications # <<>>
       THEN LET n == BatchCount(Len(new_applications), SheetsBatchSize)
            IN \E batches \in SheetAppends(n) :
                  \E error \in AppendErrors(batches, n) :
                     LET written == IF batches = n
                                    THEN mark_written(state, Len(new_applications))
                                    ELSE state
                         r == save(written, unsaved_count, state_file, "ok",
                                   AnOrder(written.processed_ids))
                     IN /\ sheet' = append_rows(sheet, new_applications, SheetsBatchSize,
                                                batches)
                        /\ clean' = (clean /\ batches = n)
                        /\ injected' = Injected(batches # n)
                        /\ IF error = "RetryError"
                           THEN /\ state' = r.state
                                /\ unsaved_count' = r.unsaved_count
                                /\ state_file' = r.state_file
                                /\ pc' = "failed"
                           ELSE /\ state' = written
                                /\ UNCHANGED <<unsaved_count, state_file>>
                                /\ pc' = "save"
       ELSE /\ UNCHANGED <<sheet, state, clean, injected, unsaved_count, state_file>>
            /\ pc' = "save"
    /\ appendLog' = new_applications
    /\ UNCHANGED <<save_interval, historyVars, faults, inbox,
                   extracted, run,
                   emails_to_process, idx, applications, existing_apps, new_applications,
                   updates_count, skipped_count, snapshot, updateLog, decision, prevRun>>

\* the final state_manager.save()
FinalSave ==
    /\ pc = "save"
    /\ \E outcome \in FileOutcomes :
          LET r == save(state, unsaved_count, state_file, outcome,
                        AnOrder(state.processed_ids))
          IN /\ state' = r.state
             /\ unsaved_count' = r.unsaved_count
             /\ state_file' = r.state_file
             /\ injected' = Injected(outcome # "ok")
    /\ pc' = "done"
    /\ UNCHANGED <<save_interval, historyVars, faults, inbox, sheet, extracted, run,
                   emails_to_process, idx, applications, existing_apps, new_applications,
                   updates_count, skipped_count, snapshot, updateLog, appendLog, clean,
                   decision, prevRun>>

\* a handler that exits without saving
handle_signal_exits(st, uc, file, outcome, order) ==
    [state |-> st, unsaved_count |-> uc, state_file |-> file]

\* handle_signal: save(), then sys.exit(0)
handle_signal(st, uc, file, outcome, order) == save(st, uc, file, outcome, order)

\* the message a record of the batch was extracted from
SourceOf(app) == CHOOSE id \in Range(emails_to_process) : EmailLink(id) = app.email_link

RECURSIVE SourcesOf(_)
SourcesOf(apps) ==
    IF apps = <<>> THEN {} ELSE {SourceOf(Head(apps))} \cup SourcesOf(Tail(apps))

\* what a signal can find in progress at a position of process_emails:
\* "none" (the signal arrives between two statements of the loop),
\* "extract" (inside extract_from_email), "update" (inside update_row),
\* "append" (inside append_rows)
InProgress ==
    CASE pc = "extract" -> {"none", "extract"}
      [] pc = "reconcile" ->
           IF Classify(existing_apps, applications[idx]) = "update"
           THEN {"none", "update"} ELSE {"none"}
      [] pc = "append" -> IF new_applications # <<>> THEN {"none", "append"} ELSE {"none"}
      [] OTHER -> {"none"}

\* the sheets a call cut short by the signal can leave: the requests sent
\* before the signal have been executed, the others have not
CutShort(work) ==
    CASE work = "update" ->
           LET app == applications[idx]
               row_idx == existing_apps[IdentityKey(app)].row_idx
           IN {update_row(sheet, row_idx, app.status, app.email_link, outcome) :
                  outcome \in UpdateOutcomes}
      [] work = "append" ->
           {append_rows(sheet, new_applications, SheetsBatchSize, batches) :
               batches \in 0..BatchCount(Len(new_applications), SheetsBatchSize)}
      [] OTHER -> {sheet}

\* the ids of the records the work cut short was for
CutShortFor(work) ==
    CASE work = "extract" -> {emails_to_process[idx]}
      [] work = "update" -> {SourceOf(applications[idx])}
      [] work = "append" -> SourcesOf(new_applications)
      [] OTHER -> {}

\* SIGINT or SIGTERM during process_emails or after it has returned: the
\* handler runs where the signal finds the program, the statement in
\* progress is not resumed
Interrupt ==
    /\ pc \in {"extract", "load_existing", "reconcile", "append", "save", "returned", "done"}
    /\ CanFail("signal")
    /\ \E work \in InProgress, outcome \in FileOutcomes :
          LET r == handle_signal(state, unsaved_count, state_file, outcome,
                                 AnOrder(state.processed_ids))
          IN /\ state' = r.state
             /\ unsaved_count' = r.unsaved_count
             /\ state_file' = r.state_file
             /\ sheet' \in CutShort(work)
             /\ inFlight' = CutShortFor(work)
             /\ saveOutcome' = outcome
             /\ injected' = injected + 1
    /\ pc' = "exited"
    /\ UNCHANGED <<save_interval, lastOp, loadResult, lastSaved, markLog, autoRun, autoFlush,
                   pending, saveCount, observe, query, restored, markedSince, saveFailing,
                   whileFailing, resume, call, faults, inbox, extracted, run, emails_to_process, idx,
                   applications, existing_apps, new_applications, updates_count,
                   skipped_count, snapshot, updateLog, appendLog, clean, decision, prevRun>>

\* the points of main() between the installation of the handlers and
\* process_emails: before --reset is handled, after reset(), after
\* set_since_date()
StartupPoints == {"installed", "reset", "since_date"}

\* SIGINT or SIGTERM at a point of main() before process_emails: a new
\* StateManager has loaded the state file, the handler saves what main() has
\* made of the ledger so far
InterruptStartup(point) ==
    /\ pc \in {"start", "done", "returned", "exited", "failed"}
    /\ run < MaxRuns
    /\ CanFail("signal")
    /\ \E unlinked \in (IF point = "reset" THEN UnlinkOutcomes ELSE {"ok"}),
          outcome \in FileOutcomes :
          LET loaded == load(ProcessingState, state_file)
              cleared == reset(loaded, state_file, unlinked)
              st == CASE point = "installed" -> loaded
                      [] point = "reset" -> cleared.state
                      [] point = "since_date" -> set_since_date(loaded, Since)
              file == IF point = "reset" THEN cleared.state_file ELSE state_file
              r == handle_signal(st, 0, file, outcome, AnOrder(st.processed_ids))
          IN /\ state' = r.state
             /\ unsaved_count' = r.unsaved_count
             /\ state_file' = r.state_file
             /\ saveOutcome' = outcome
             /\ injected' = injected + 1
    /\ inFlight' = {}
    /\ pc' = "exited"
    /\ save_interval' = MaxInterval
    /\ run' = run + 1
    /\ emails_to_process' = <<>>
    /\ idx' = 1
    /\ applications' = <<>>
    /\ existing_apps' = EmptyDict
    /\ new_applications' = <<>>
    /\ updates_count' = 0
    /\ skipped_count' = 0
    /\ snapshot' = EmptyDict
    /\ updateLog' = <<>>
    /\ appendLog' = <<>>
    /\ clean' = TRUE
    /\ decision' = NoDecision
    /\ prevRun' = [ran |-> run > 0 /\ pc = "done", applications |-> applications,
                   clean |-> clean]
    /\ UNCHANGED <<lastOp, loadResult, lastSaved, markLog, autoRun, autoFlush,
                   pending, saveCount, observe, query, restored, markedSince, saveFailing,
                   whileFailing, resume, call, faults, inbox, sheet, extracted>>

Next ==
    \/ \E do_reset \in BOOLEAN : StartRun(do_reset)
    \/ ExtractEmail
    \/ LoadExisting
    \/ Reconcile
    \/ AppendNew
    \/ FinalSave

Spec == Init /\ [][Next]_vars

\* what the extractor returns for the messages of the interrupted runs
Answers ==
    [id \in Range(AllIds) |->
        CASE id = "m1" -> [known |-> TRUE, company_name |-> "Acme", role |-> "SWE",
                           status |-> "SUBMITTED"]
          [] id = "m2" -> [known |-> TRUE, company_name |-> "Acme", role |-> "SWE",
                           status |-> "INTERVIEW"]
          [] id = "m3" -> [known |-> TRUE, company_name |-> "Zinc", role |-> "QA 2025",
                           status |-> "SUBMITTED"]
          [] OTHER -> [known |-> TRUE, company_name |-> "Inc.", role |-> "SWE",
                       status |-> "SUBMITTED"]]

\* a main() that goes on to process_emails whatever check_prerequisites says
after_prerequisites_goes_on(passed, todo) ==
    [pc |-> IF todo = <<>> THEN "returned" ELSE "extract", emails_to_process |-> todo]

\* main(): "if not check_prerequisites(...): return 1", process_emails
\* otherwise; where the run is after it and what it is to process
after_prerequisites(passed, todo) ==
    IF passed
    THEN [pc |-> IF todo = <<>> THEN "returned" ELSE "extract", emails_to_process |-> todo]
    ELSE [pc |-> "failed", emails_to_process |-> <<>>]

\* main() with a prerequisite that is not met (credentials, Gmail access, the
\* spreadsheet id or tab, Ollama, the model): the ledger is loaded, reset
\* under --reset, given the since-date; check_prerequisites returns false
PrerequisitesFail(do_reset) ==
    /\ pc \in {"start", "done", "returned", "exited", "failed"}
    /\ run < MaxRuns
    /\ CanFail("config")
    /\ \E outcome \in (IF do_reset THEN UnlinkOutcomes ELSE {"ok"}) :
          LET loaded == load(ProcessingState, state_file)
              cleared == reset(loaded, state_file, outcome)
              st == set_since_date(IF do_reset THEN cleared.state ELSE loaded, Since)
              after == after_prerequisites(FALSE, get_unprocessed(st, inbox))
          IN /\ state' = st
             /\ state_file' = IF do_reset THEN cleared.state_file ELSE state_file
             /\ emails_to_process' = after.emails_to_process
             /\ pc' = after.pc
    /\ injected' = injected + 1
    /\ unsaved_count' = 0
    /\ save_interval' = MaxInterval
    /\ run' = run + 1
    /\ idx' = 1
    /\ applications' = <<>>
    /\ existing_apps' = EmptyDict
    /\ new_applications' = <<>>
    /\ updates_count' = 0
    /\ skipped_count' = 0
    /\ snapshot' = EmptyDict
    /\ updateLog' = <<>>
    /\ appendLog' = <<>>
    /\ clean' = TRUE
    /\ decision' = NoDecision
    /\ prevRun' = [ran |-> run > 0 /\ pc = "done", applications |-> applications,
                   clean |-> clean]
    /\ UNCHANGED <<faults, inbox, sheet, extracted, historyVars>>

\* the runs with an extractor that can fail and signals that can arrive
InterruptInit ==
    /\ state = ProcessingState
    /\ unsaved_count = 0
    /\ save_interval = MaxInterval
    /\ state_file = Absent
    /\ lastOp = "new"
    /\ loadResult = FALSE
    /\ lastSaved = [valid |-> FALSE, st |-> ProcessingState]
    /\ markLog = <<>>
    /\ autoRun = FALSE
    /\ autoFlush = FALSE
    /\ pending = 0
    /\ saveCount = 0
    /\ TraceIdle({"signals"})
    /\ faults = {"llm", "signal", "config"}
    /\ injected = 0
    /\ inbox \in Inboxes
    /\ sheet \in InitialSheets
    /\ extracted = [id \in Range(inbox) |-> Answers[id]]
    /\ pc = "start"
    /\ run = 0
    /\ emails_to_process = <<>>
    /\ idx = 0
    /\ applications = <<>>
    /\ existing_apps = EmptyDict
    /\ new_applications = <<>>
    /\ updates_count = 0
    /\ skipped_count = 0
    /\ snapshot = EmptyDict
    /\ updateLog = <<>>
    /\ appendLog = <<>>
    /\ clean = TRUE
    /\ decision = NoDecision
    /\ prevRun = NoRun

InterruptNext ==
    \/ \E do_reset \in BOOLEAN : StartRun(do_reset)
    \/ \E point \in StartupPoints : InterruptStartup(point)
    \/ \E do_reset \in BOOLEAN : PrerequisitesFail(do_reset)
    \/ ExtractEmail
    \/ LoadExisting
    \/ Reconcile
    \/ AppendNew
    \/ FinalSave
    \/ Interrupt

SpecInterrupt == InterruptInit /\ [][InterruptNext]_vars

(***************************************************************************)
(* Properties of the reconciliation                                        *)
(***************************************************************************)
\* the ranks of section 3: Unknown 0 < Submitted 1 < AssessmentInvite 2 <
\* Interview 3 < Rejected 4
Rank(st) ==
    CASE st = "NA" -> 0
      [] st = "SUBMITTED" -> 1
      [] st = "OA_INVITE" -> 2
      [] st = "INTERVIEW" -> 3
      [] st = "REJECTED" -> 4

\* the loop over the applications of this run has finished
Reconciled == pc \in {"append", "save", "done"}

BothHalves(key) == key[1] # "" /\ key[2] # ""

\* the positions of the batch that hold a record with the key
Holders(key) == {i \in 1..Len(applications) : IdentityKey(applications[i]) = key}

\* the positions of a list of records that hold a record with the key
Queued(list, key) == {n \in 1..Len(list) : IdentityKey(list[n]) = key}

BatchKeys == {IdentityKey(applications[i]) : i \in 1..Len(applications)}

First(S) == CHOOSE i \in S : \A j \in S : i <= j

\* C1: no step of a run lowers the rank of the status a sheet row holds.
StatusNeverRegresses ==
    [][\A r \in 2..Len(sheet) :
          Rank(ParseStatus(sheet'[r][2])) >= Rank(ParseStatus(sheet[r][2]))]_vars

\* C2: for a key with both halves that is absent from the snapshot, the new
\* record queued for it carries the highest-ranked status of the batch
\* records with that key and the link of a record that carried that status.
InBatchHighestWins ==
    Reconciled =>
        \A n \in 1..Len(new_applications) :
            LET key == IdentityKey(new_applications[n])
            IN (BothHalves(key) /\ key \notin DOMAIN snapshot) =>
                  \E i \in Holders(key) :
                      /\ \A j \in Holders(key) :
                            Rank(applications[j].status) <= Rank(applications[i].status)
                      /\ new_applications[n].status = applications[i].status
                      /\ new_applications[n].email_link = applications[i].email_link

\* C3: the list handed to append_rows holds exactly one record for every key
\* with both halves that occurs in the batch and not in the snapshot, no
\* record whose key is in the snapshot, and its records are records of the
\* batch in batch order, the first holders of their keys.
NewListOnePerAbsentKey ==
    pc \in {"save", "done"} =>
        /\ \A key \in BatchKeys :
              (BothHalves(key) /\ key \notin DOMAIN snapshot) =>
                  Cardinality(Queued(appendLog, key)) = 1
        /\ \A n \in 1..Len(appendLog) :
              /\ IdentityKey(appendLog[n]) \notin DOMAIN snapshot
              /\ BothHalves(IdentityKey(appendLog[n])) =>
                    appendLog[n] = applications[First(Holders(IdentityKey(appendLog[n])))]
        /\ \A n, m \in 1..Len(appendLog) :
              (n < m /\ BothHalves(IdentityKey(appendLog[n]))
                     /\ BothHalves(IdentityKey(appendLog[m]))) =>
                  First(Holders(IdentityKey(appendLog[n])))
                      < First(Holders(IdentityKey(appendLog[m])))

NewListOnePerAbsentKeyWitness ==
    /\ pc = "save"
    /\ Len(applications) = 2
    /\ Len(appendLog) = 2
    /\ BothHalves(IdentityKey(appendLog[1]))
    /\ BothHalves(IdentityKey(appendLog[2]))
    /\ IdentityKey(appendLog[1]) # IdentityKey(appendLog[2])
    /\ Len(sheet) > 3

\* C4: a run over the batch of the previous run, whose sheet calls all
\* succeeded as do those of this run, appends no row and updates no row
\* (stated for the batches whose records all have a key with both halves).
SecondRunEmitsNothing ==
    (pc = "done" /\ prevRun.ran /\ prevRun.clean /\ clean
        /\ applications = prevRun.applications
        /\ \A key \in BatchKeys : BothHalves(key)) =>
        /\ appendLog = <<>>
        /\ updateLog = <<>>

\* the update_row calls made for the record at position i of the batch
UpdatesFor(i) == {u \in 1..Len(updateLog) : updateLog[u].k = i}

\* C5: for a record whose key the snapshot holds (with the row it was loaded
\* from), one update_row call with that row, the record's status and the
\* record's link is made when the record's status outranks the status of the
\* snapshot entry, none otherwise, and the record is not queued as new.
UpdateIffOutranks ==
    Reconciled =>
        \A i \in 1..Len(applications) :
            LET app == applications[i]
                key == IdentityKey(app)
            IN key \in DOMAIN snapshot =>
                  /\ snapshot[key].row_idx >= 2
                  /\ app \notin Range(new_applications)
                  /\ IF Rank(app.status) > Rank(snapshot[key].status)
                     THEN /\ Cardinality(UpdatesFor(i)) = 1
                          /\ \A u \in UpdatesFor(i) :
                                /\ updateLog[u].row_idx = snapshot[key].row_idx
                                /\ updateLog[u].status = app.status
                                /\ updateLog[u].email_link = app.email_link
                     ELSE UpdatesFor(i) = {}

UpdateIffOutranksWitness ==
    /\ Reconciled
    /\ Len(applications) = 2
    /\ Len(updateLog) = 1
    /\ updateLog[1].outcome = "ok"
    /\ updateLog[1].k = 1
    /\ skipped_count = 1
    /\ new_applications = <<>>
    /\ IdentityKey(applications[2]) \in DOMAIN snapshot

\* C6: every record with an empty key half is queued as new.
EmptyKeyAlwaysNew ==
    Reconciled =>
        \A i \in 1..Len(applications) :
            ~BothHalves(IdentityKey(applications[i])) =>
                applications[i] \in Range(new_applications)

\* C7: should_update_status(existing, candidate) is true exactly when the
\* rank of the candidate is above the rank of the existing status: never for
\* equal statuses, for an existing Rejected or for a candidate Unknown.
ShouldUpdateIsRankGreater ==
    decision.made =>
        /\ decision.result <=> (Rank(decision.new) > Rank(decision.existing))
        /\ decision.existing = decision.new => ~decision.result
        /\ decision.existing = "REJECTED" => ~decision.result
        /\ decision.new = "NA" => ~decision.result

ShouldUpdateIsRankGreaterWitness ==
    /\ decision.made
    /\ decision.existing = "OA_INVITE"
    /\ decision.new = "INTERVIEW"
    /\ decision.result

(***************************************************************************)
(* The ledger driven through its interface                                 *)
(***************************************************************************)
LedgerInit ==
    /\ state = ProcessingState
    /\ unsaved_count = 0
    /\ save_interval \in 1..MaxInterval
    /\ state_file = Absent
    /\ lastOp = "new"
    /\ loadResult = FALSE
    /\ lastSaved = [valid |-> FALSE, st |-> ProcessingState]
    /\ markLog = <<>>
    /\ autoRun = TRUE
    /\ autoFlush = TRUE
    /\ pending = 0
    /\ saveCount = 0
    /\ TraceIdle({})
    /\ faults = {}
    /\ injected = 0
    /\ inbox = <<>>
    /\ sheet = <<HeaderRow>>
    /\ PipeIdle

\* no successful save stands behind the file
NotSaved == [valid |-> FALSE, st |-> ProcessingState]

\* the history variables after a save() with the given outcome
SaveHistory(stAfter, outcome, calls) ==
    /\ lastSaved' = CASE outcome = "ok" -> [valid |-> TRUE, st |-> stAfter]
                      [] outcome = "open_error" -> lastSaved
                      [] outcome = "write_error" -> NotSaved
    /\ autoFlush' = (autoFlush /\ outcome = "ok")
    /\ pending' = IF outcome = "ok" THEN 0 ELSE calls

\* the ids marked while saves were failing, forgotten once a save has succeeded
Lost == IF saveFailing THEN whileFailing ELSE {}

\* the histories after a ledger call other than get_unprocessed: the ids the
\* call left in memory when it was a reset, load or construction (`kept`),
\* the ids marked since (`marked`), the outcome of the save() it executed,
\* whether saves are failing after it and the ids marked while they were
Trace(kept, marked, outcome, failing, lost) ==
    /\ observe' = observe
    /\ query' = NoQuery
    /\ inFlight' = inFlight
    /\ resume' = NoResume
    /\ call' = NoCall
    /\ IF "queries" \in observe
       THEN restored' = kept /\ markedSince' = marked
       ELSE UNCHANGED <<restored, markedSince>>
    /\ IF "failures" \in observe
       THEN saveOutcome' = outcome /\ saveFailing' = failing /\ whileFailing' = lost
       ELSE UNCHANGED <<saveOutcome, saveFailing, whileFailing>>

\* the outcomes and id orders of the save() a mark_processed call makes; one
\* stands for all when the call makes none
MarkOutcomes(auto_save) ==
    IF MarkSaves(unsaved_count, save_interval, auto_save) THEN SaveOutcomes ELSE {"ok"}

MarkOrders(ids, auto_save) ==
    IF MarkSaves(unsaved_count, save_interval, auto_save) THEN Orders(ids) ELSE {AnOrder(ids)}

MarkProcessed(id, auto_save) ==
    /\ UNCHANGED pipeVars
    /\ state.total_processed < MaxProcessed
    /\ unsaved_count < MaxUnsaved
    /\ \E outcome \in MarkOutcomes(auto_save),
          order \in MarkOrders(state.processed_ids \cup {id}, auto_save) :
          LET r == mark_processed(state, unsaved_count, save_interval, state_file,
                                  id, auto_save, outcome, order)
              saves == MarkSaves(unsaved_count, save_interval, auto_save)
          IN /\ state' = r.state
             /\ unsaved_count' = r.unsaved_count
             /\ state_file' = r.state_file
             /\ IF saves
                THEN /\ SaveHistory(r.state, outcome, pending + 1)
                     /\ autoRun' = (autoRun /\ outcome = "ok")
                     /\ saveCount' = IF autoRun' THEN saveCount + 1 ELSE 0
                ELSE /\ UNCHANGED lastSaved
                     /\ saveCount' = IF autoRun /\ auto_save THEN saveCount ELSE 0
                     /\ autoFlush' = (autoFlush /\ auto_save)
                     /\ pending' = pending + 1
                     /\ autoRun' = (autoRun /\ auto_save)
             /\ markLog' = IF autoRun' THEN Append(markLog, id) ELSE <<>>
             /\ Trace(restored, markedSince \cup {id},
                      IF saves THEN outcome ELSE "none",
                      IF saves THEN outcome # "ok" ELSE saveFailing,
                      IF saveFailing \/ (saves /\ outcome # "ok")
                      THEN Lost \cup {id} ELSE {})
    /\ lastOp' = "mark_processed"
    /\ UNCHANGED <<save_interval, loadResult>>

\* the cap on total_written of a behaviour: one call further where the
\* written totals are what is followed
WrittenCap == IF "written" \in observe THEN MaxWritten + 1 ELSE MaxWritten

MarkWritten(count) ==
    /\ UNCHANGED pipeVars
    /\ state.total_written + count <= WrittenCap
    /\ state' = mark_written(state, count)
    /\ lastOp' = "mark_written"
    /\ Trace(restored, markedSince, "none", saveFailing, Lost)
    /\ UNCHANGED <<unsaved_count, save_interval, state_file, loadResult, lastSaved,
                   markLog, autoRun, autoFlush, pending, saveCount>>

SetSinceDate(since_date) ==
    /\ UNCHANGED pipeVars
    /\ state' = set_since_date(state, since_date)
    /\ lastOp' = "set_since_date"
    /\ Trace(restored, markedSince, "none", saveFailing, Lost)
    /\ UNCHANGED <<unsaved_count, save_interval, state_file, loadResult, lastSaved,
                   markLog, autoRun, autoFlush, pending, saveCount>>

Save ==
    /\ UNCHANGED pipeVars
    /\ \E outcome \in SaveOutcomes, order \in Orders(state.processed_ids) :
          LET r == save(state, unsaved_count, state_file, outcome, order)
          IN /\ state' = r.state
             /\ unsaved_count' = r.unsaved_count
             /\ state_file' = r.state_file
             /\ SaveHistory(r.state, outcome, pending)
             /\ Trace(restored, markedSince, outcome, outcome # "ok", Lost)
    /\ lastOp' = "save"
    /\ autoRun' = FALSE
    /\ markLog' = <<>>
    /\ saveCount' = 0
    /\ UNCHANGED <<save_interval, loadResult>>

Load ==
    /\ UNCHANGED pipeVars
    /\ state' = load(state, state_file)
    /\ loadResult' = load_returns(state_file)
    /\ lastOp' = IF lastOp = "new" THEN "load_fresh" ELSE "load"
    /\ pending' = IF load_returns(state_file) THEN 0 ELSE pending
    /\ Trace(state'.processed_ids, {}, "none",
             IF load_returns(state_file) THEN FALSE ELSE saveFailing,
             IF load_returns(state_file) THEN {} ELSE Lost)
    /\ autoRun' = FALSE
    /\ markLog' = <<>>
    /\ saveCount' = 0
    /\ UNCHANGED <<unsaved_count, save_interval, state_file, lastSaved, autoFlush>>

\* StateManager.reset
Reset ==
    /\ UNCHANGED pipeVars
    /\ \E outcome \in UnlinkOutcomes :
          LET r == reset(state, state_file, outcome)
          IN /\ state' = r.state
             /\ unsaved_count' = r.unsaved_count
             /\ state_file' = r.state_file
             /\ lastSaved' = IF outcome = "ok" THEN NotSaved ELSE lastSaved
    /\ lastOp' = "reset"
    /\ Trace({}, {}, "none", FALSE, {})
    /\ pending' = 0
    /\ autoRun' = FALSE
    /\ markLog' = <<>>
    /\ saveCount' = 0
    /\ UNCHANGED <<save_interval, loadResult, autoFlush>>

\* StateManager.__init__: a fresh instance over the same state file
NewManager ==
    /\ UNCHANGED pipeVars
    /\ state' = ProcessingState
    /\ unsaved_count' = 0
    /\ save_interval' \in 1..MaxInterval
    /\ lastOp' = "new"
    /\ Trace({}, {}, "none", FALSE, {})
    /\ loadResult' = FALSE
    /\ markLog' = <<>>
    /\ autoRun' = (state_file = Absent)
    /\ autoFlush' = TRUE
    /\ pending' = 0
    /\ saveCount' = 0
    /\ UNCHANGED <<state_file, lastSaved>>

\* the lists the ledger is queried with: ids out of order, an id twice, an
\* id that is never marked
Queries == {<<"m2", "m1", "m3", "m2">>, <<"m1", "m1", "m2">>}

\* StateManager.get_unprocessed called on the instance
GetUnprocessed(message_ids) ==
    /\ UNCHANGED <<ledgerVars, pipeVars>>
    /\ query' = [asked |-> TRUE, message_ids |-> message_ids,
                 result |-> get_unprocessed(state, message_ids)]
    /\ lastOp' = "get_unprocessed"
    /\ UNCHANGED <<loadResult, lastSaved, markLog, autoRun, autoFlush, pending, saveCount,
                   observe, restored, markedSince, saveOutcome, saveFailing, whileFailing,
                   inFlight, resume, call>>

\* the --since values of the invocations whose resume prompt is followed
SinceArgs == {"2026-01-01", "2026-02-01"}

\* handle_resume_prompt called on the instance
ResumePrompt(since_date) ==
    /\ UNCHANGED pipeVars
    /\ \E choice \in ValidChoices(PromptFor(state, state_file, since_date)),
          unlinked \in UnlinkOutcomes :
          LET r == handle_resume_prompt(state, unsaved_count, state_file, since_date,
                                        choice, unlinked)
          IN /\ state' = r.state
             /\ unsaved_count' = r.unsaved_count
             /\ state_file' = r.state_file
             /\ resume' = [by |-> "call", since_date |-> since_date, do_reset |-> FALSE,
                           loaded |-> state, prompt |-> r.prompt, choice |-> choice,
                           returns |-> r.returns]
             /\ lastSaved' = IF state_file' = state_file THEN lastSaved ELSE NotSaved
             /\ pending' = IF choice \in {"2", "n"} THEN 0 ELSE pending
    /\ lastOp' = "resume_prompt"
    /\ autoRun' = FALSE
    /\ markLog' = <<>>
    /\ saveCount' = 0
    /\ UNCHANGED <<save_interval, loadResult, autoFlush, observe, query, restored,
                   markedSince, saveOutcome, saveFailing, whileFailing, inFlight, call>>

\* main() from the construction of the StateManager to the resume prompt:
\* load(), the handlers, reset() under --reset, set_since_date(args.since),
\* handle_resume_prompt
MainStart(since_date, do_reset) ==
    /\ UNCHANGED pipeVars
    /\ LET loaded == load(ProcessingState, state_file)
       IN \E unlinked \in UnlinkOutcomes :
             LET cleared == reset(loaded, state_file, unlinked)
                 st == set_since_date(IF do_reset THEN cleared.state ELSE loaded, since_date)
                 file == IF do_reset THEN cleared.state_file ELSE state_file
             IN \E choice \in ValidChoices(PromptFor(st, file, since_date)) :
                   LET r == handle_resume_prompt(st, 0, file, since_date, choice, unlinked)
                   IN /\ state' = r.state
                      /\ unsaved_count' = r.unsaved_count
                      /\ state_file' = r.state_file
                      /\ resume' = [by |-> "main", since_date |-> since_date,
                                    do_reset |-> do_reset, loaded |-> loaded,
                                    prompt |-> r.prompt, choice |-> choice,
                                    returns |-> r.returns]
                      /\ lastSaved' = IF state_file' = state_file THEN lastSaved ELSE NotSaved
    /\ save_interval' = MaxInterval
    /\ loadResult' = load_returns(state_file)
    /\ lastOp' = "main"
    /\ pending' = 0
    /\ autoRun' = FALSE
    /\ autoFlush' = TRUE
    /\ markLog' = <<>>
    /\ saveCount' = 0
    /\ UNCHANGED <<observe, query, restored, markedSince, saveOutcome, saveFailing,
                   whileFailing, inFlight, call>>

LedgerNext ==
    \/ \E id \in MessageIds, auto_save \in BOOLEAN : MarkProcessed(id, auto_save)
    \/ \E count \in 1..MaxWritten : MarkWritten(count)
    \/ \E since_date \in SinceDates : SetSinceDate(since_date)
    \/ Save
    \/ Load
    \/ Reset
    \/ NewManager

SpecLedger == LedgerInit /\ [][LedgerNext]_vars

\* the ledger queried between its calls, the ids restored and marked recorded
LedgerQueryInit ==
    /\ state = ProcessingState
    /\ unsaved_count = 0
    /\ save_interval \in 1..MaxInterval
    /\ state_file = Absent
    /\ lastOp = "new"
    /\ loadResult = FALSE
    /\ lastSaved = NotSaved
    /\ markLog = <<>>
    /\ autoRun = TRUE
    /\ autoFlush = TRUE
    /\ pending = 0
    /\ saveCount = 0
    /\ TraceIdle({"queries"})
    /\ faults = {}
    /\ injected = 0
    /\ inbox = <<>>
    /\ sheet = <<HeaderRow>>
    /\ PipeIdle

LedgerQueryNext ==
    \/ \E id \in MessageIds, auto_save \in BOOLEAN : MarkProcessed(id, auto_save)
    \/ Save
    \/ Load
    \/ Reset
    \/ NewManager
    \/ \E message_ids \in Queries : GetUnprocessed(message_ids)

SpecLedgerQuery == LedgerQueryInit /\ [][LedgerQueryNext]_vars

\* the ledger with its written totals followed over several mark_written calls
LedgerWrittenInit ==
    /\ state = ProcessingState
    /\ unsaved_count = 0
    /\ save_interval \in 1..MaxInterval
    /\ state_file = Absent
    /\ lastOp = "new"
    /\ loadResult = FALSE
    /\ lastSaved = NotSaved
    /\ markLog = <<>>
    /\ autoRun = TRUE
    /\ autoFlush = TRUE
    /\ pending = 0
    /\ saveCount = 0
    /\ TraceIdle({"written"})
    /\ faults = {}
    /\ injected = 0
    /\ inbox = <<>>
    /\ sheet = <<HeaderRow>>
    /\ PipeIdle

LedgerWrittenNext ==
    \/ \E id \in MessageIds, auto_save \in BOOLEAN : MarkProcessed(id, auto_save)
    \/ \E count \in 1..MaxWritten : MarkWritten(count)
    \/ \E since_date \in SinceDates : SetSinceDate(since_date)
    \/ Save
    \/ Load

SpecLedgerWritten == LedgerWrittenInit /\ [][LedgerWrittenNext]_vars

\* the ledger between invocations of main() with different --since values
LedgerResumeInit ==
    /\ state = ProcessingState
    /\ unsaved_count = 0
    /\ save_interval = MaxInterval
    /\ state_file = Absent
    /\ lastOp = "new"
    /\ loadResult = FALSE
    /\ lastSaved = NotSaved
    /\ markLog = <<>>
    /\ autoRun = TRUE
    /\ autoFlush = TRUE
    /\ pending = 0
    /\ saveCount = 0
    /\ TraceIdle({"resume"})
    /\ faults = {}
    /\ injected = 0
    /\ inbox = <<>>
    /\ sheet = <<HeaderRow>>
    /\ PipeIdle

LedgerResumeNext ==
    \/ \E id \in MessageIds, auto_save \in BOOLEAN : MarkProcessed(id, auto_save)
    \/ Save
    \/ \E since_date \in SinceArgs : ResumePrompt(since_date)
    \/ \E since_date \in SinceArgs, do_reset \in BOOLEAN : MainStart(since_date, do_reset)

SpecLedgerResume == LedgerResumeInit /\ [][LedgerResumeNext]_vars

\* what the LLM gives for company_name and role: names, blanks, synonyms of
\* "unknown", lists, numbers, null, or no such key
GivenNames ==
    {Str("Google"), Str(""), Str("  "), Str("Unknown"), Str(" N/A"), Str("null"),
     Str("Not provided by the sender"), Str("Unknown Labs"), List(<<>>),
     List(<<Str("Acme"), Str("Zinc")>>), List(<<Str("")>>), List(<<PyNone>>),
     List(<<List(<<Str("none")>>)>>), List(<<Str("None")>>), PyNone, Num(0), Num(7), Missing}

GivenRoles ==
    {Str("SWE Intern"), Str("n/a"), Str("\t"), List(<<Str("QA"), Str("SWE")>>),
     List(<<Num(0)>>), PyNone, Missing}

\* what the LLM gives for status
GivenStatuses ==
    {Str("interview"), Str(" Rejected "), Str("we scheduled an interview"), Str("oa"),
     Str("offer"), Str(" "), Str(""), Str("n"), List(<<Str("submitted")>>), List(<<>>),
     List(<<PyNone>>), PyNone, Num(5), Missing}

\* the responses of the LLM
Responses ==
    [json : {"object"}, company_name : GivenNames, role : GivenRoles, status : GivenStatuses]
    \cup [json : {"invalid", "other"}, company_name : {Missing}, role : {Missing},
          status : {Missing}]

\* the calls of extract_from_email to come: the response the LLM is going to
\* give and the email
ExtractCalls ==
    [op : {"extract_from_email"}, done : {FALSE}, response : Responses,
     message_id : MessageIds, gave : {[raised |-> "none", produced |-> <<>>]}]

\* extract_from_email called on the email
ExtractFromEmail ==
    /\ call.op = "extract_from_email"
    /\ ~call.done
    /\ UNCHANGED <<ledgerVars, pipeVars>>
    /\ call' = [call EXCEPT !.done = TRUE,
                            !.gave = extract_from_email(call.response, DateSent,
                                                        EmailLink(call.message_id))]
    /\ lastOp' = "extract_from_email"
    /\ UNCHANGED <<loadResult, lastSaved, markLog, autoRun, autoFlush, pending, saveCount,
                   observe, query, restored, markedSince, saveOutcome, saveFailing,
                   whileFailing, inFlight, resume>>

\* company names as emails and sheets write them
WrittenNames == {"Google", "Acme Labs", "Zinc", "Cisco", "Yahoo", ""}

\* the legal-entity suffixes as names carry them, with and without the comma
\* and the final dot
WrittenSuffixes ==
    {"", ", Inc.", " Inc", " LLC", ", LLC", " Ltd.", " Corp.", " Corp", " Corporation",
     " Company", " Co.", ", Co", " Incorporated", " Limited", ", GmbH", " PLC", " plc."}

\* the same name written another way: the case of its letters, blanks
\* around it, a punctuation mark behind the name, a legal-entity suffix
Writings ==
    [case : {"same", "upper", "lower"}, left : {"", " "}, right : {"", " \t"},
     mark : {"", "!"}, suffix : WrittenSuffixes]

Written(name, w) ==
    LET text == name \o w.mark \o w.suffix
    IN w.left
       \o (CASE w.case = "upper" -> upper(text) [] w.case = "lower" -> lower(text)
              [] OTHER -> text)
       \o w.right

\* the calls of normalize_company_name to come: a name and another writing of it
NormalizeCalls ==
    [op : {"normalize_company_name"}, done : {FALSE}, name : WrittenNames,
     writing : Writings, gave : {[key |-> "", other_key |-> ""]}]

\* normalize_company_name called on the name and on its other writing
NormalizeCompanyName ==
    /\ call.op = "normalize_company_name"
    /\ ~call.done
    /\ UNCHANGED <<ledgerVars, pipeVars>>
    /\ call' = [call EXCEPT !.done = TRUE,
                            !.gave = [key |-> normalize_company_name(call.name),
                                      other_key |-> normalize_company_name(
                                                        Written(call.name, call.writing))]]
    /\ lastOp' = "normalize_company_name"
    /\ UNCHANGED <<loadResult, lastSaved, markLog, autoRun, autoFlush, pending, saveCount,
                   observe, query, restored, markedSince, saveOutcome, saveFailing,
                   whileFailing, inFlight, resume>>

\* roles as emails and sheets write them, each in a short and in a long form
WrittenRoles ==
    { [short |-> "SWE Intern", long |-> "Software Engineer Intern"],
      [short |-> "ML/AI Engineer", long |-> "machine learning/artificial intelligence engineer"],
      [short |-> "QA", long |-> "Quality Assurance"],
      [short |-> "SDE Internship", long |-> "Software Development Engineer Intern"],
      [short |-> "UI UX Designer", long |-> "User Interface User Experience Designer"],
      [short |-> "Data Analyst", long |-> "data  analyst"],
      [short |-> "FE", long |-> "frontend"],
      [short |-> "", long |-> ""] }

\* the season and the year a role carries, in front of it or behind it
WrittenTerms == {"", "Summer 2026", "2025", "fall2025", "Winter  2024", "spring 1999"}

RoleWritings ==
    [case : {"same", "upper", "lower"}, front : WrittenTerms, back : WrittenTerms]

WrittenRole(role, w) ==
    LET text == w.front \o (IF w.front = "" THEN "" ELSE " ") \o role
                \o (IF w.back = "" THEN "" ELSE " ") \o w.back
    IN CASE w.case = "upper" -> upper(text) [] w.case = "lower" -> lower(text)
         [] OTHER -> text

\* the calls of normalize_role to come: the long form of a role, and its short
\* form with a season and a year
RoleCalls ==
    [op : {"normalize_role"}, done : {FALSE}, role : WrittenRoles, writing : RoleWritings,
     gave : {[key |-> "", other_key |-> ""]}]

\* normalize_role called on the long form and on the other writing
NormalizeRole ==
    /\ call.op = "normalize_role"
    /\ ~call.done
    /\ UNCHANGED <<ledgerVars, pipeVars>>
    /\ call' = [call EXCEPT !.done = TRUE,
                            !.gave = [key |-> normalize_role(call.role.long),
                                      other_key |-> normalize_role(
                                                        WrittenRole(call.role.short,
                                                                    call.writing))]]
    /\ lastOp' = "normalize_role"
    /\ UNCHANGED <<loadResult, lastSaved, markLog, autoRun, autoFlush, pending, saveCount,
                   observe, query, restored, markedSince, saveOutcome, saveFailing,
                   whileFailing, inFlight, resume>>

\* the JobApplications handed to append_rows
Job(k) ==
    [company_name |-> "Company" \o ToString(k), role |-> "Role" \o ToString(k),
     status |-> "SUBMITTED", date_submitted |-> "2026-01-10",
     email_link |-> "https://example.com/" \o ToString(k)]

\* the calls of append_rows to come: the jobs, the batch size of the client
\* and the call of the Sheets API that fails, if one does
AppendCalls ==
    [op : {"append_rows"}, done : {FALSE}, jobs : {[k \in 1..n |-> Job(k)] : n \in 0..MaxJobs},
     batch_size : 1..MaxBatchSize, failing : 0..MaxBatchSize,
     gave : {[calls |-> <<>>, appended |-> <<>>, raised |-> "none", returns |-> 0]}]

\* append_rows called on the client
AppendRows ==
    /\ call.op = "append_rows"
    /\ ~call.done
    /\ UNCHANGED <<ledgerVars, pipeVars>>
    /\ call' = [call EXCEPT !.done = TRUE,
                            !.gave = append_rows_calls(call.jobs, call.batch_size,
                                                       call.failing)]
    /\ lastOp' = "append_rows"
    /\ UNCHANGED <<loadResult, lastSaved, markLog, autoRun, autoFlush, pending, saveCount,
                   observe, query, restored, markedSince, saveOutcome, saveFailing,
                   whileFailing, inFlight, resume>>

\* sizes of the pages a query has: one page at least
PageSizes == UNION {[1..n -> 0..MaxPageSize] : n \in 1..MaxPages}

\* number of the messages in front of page p
RECURSIVE Before(_, _)
Before(sizes, p) == IF p = 1 THEN 0 ELSE Before(sizes, p - 1) + sizes[p - 1]

\* the pages users().messages().list() answers with, page p being the answer
\* to the token of page p - 1: its messages (numbered as the API orders them)
\* and whether it carries a nextPageToken; the last page carries none
PagesOf(sizes, tokens) ==
    [p \in 1..Len(sizes) |->
        [messages |-> [i \in 1..sizes[p] |-> Before(sizes, p) + i],
         token |-> p < Len(sizes) /\ tokens[p]]]

Mailboxes ==
    UNION { {PagesOf(sizes, tokens) : tokens \in [1..Len(sizes) -> BOOLEAN]} :
            sizes \in PageSizes }

\* max_results: None, or a count
MaxResultsArgs ==
    {[given |-> FALSE, count |-> 0]} \cup [given : {TRUE}, count : 0..MaxResults]

\* the calls of _list_messages_with_retry to come, in front of "while True"
ListCalls ==
    [op : {"list_messages"}, done : {FALSE}, pages : Mailboxes,
     max_results : MaxResultsArgs, page_token : {0}, all_messages : {<<>>},
     requested : {0}, returns : {<<>>}]

\* a loop that does not look at max_results
list_messages_uncapped(c) ==
    LET page == c.pages[c.page_token + 1]
        all == c.all_messages \o page.messages
    IN IF ~page.token
       THEN [c EXCEPT !.done = TRUE, !.all_messages = all, !.returns = all,
                      !.requested = @ + 1]
       ELSE [c EXCEPT !.all_messages = all, !.page_token = @ + 1, !.requested = @ + 1]

\* one pass of the "while True" of _list_messages_with_retry: the page
\* behind the token is requested and its messages are added; page_token is
\* the number of the page whose token is held, 0 for None
list_messages_pass(c) ==
    LET page == c.pages[c.page_token + 1]
        all == c.all_messages \o page.messages
    IN IF c.max_results.given /\ Len(all) >= c.max_results.count
       THEN [c EXCEPT !.done = TRUE, !.all_messages = all,
                      !.returns = SubSeq(all, 1, c.max_results.count),
                      !.requested = @ + 1]
       ELSE IF ~page.token
       THEN [c EXCEPT !.done = TRUE, !.all_messages = all, !.returns = all,
                      !.requested = @ + 1]
       ELSE [c EXCEPT !.all_messages = all, !.page_token = @ + 1, !.requested = @ + 1]

ListMessagesPage ==
    /\ call.op = "list_messages"
    /\ ~call.done
    /\ UNCHANGED <<ledgerVars, pipeVars>>
    /\ call' = list_messages_pass(call)
    /\ lastOp' = "list_messages"
    /\ UNCHANGED <<loadResult, lastSaved, markLog, autoRun, autoFlush, pending, saveCount,
                   observe, query, restored, markedSince, saveOutcome, saveFailing,
                   whileFailing, inFlight, resume>>

\* the listing of the messages of a query, pass by pass
ListInit ==
    /\ state = ProcessingState
    /\ unsaved_count = 0
    /\ save_interval = MaxInterval
    /\ state_file = Absent
    /\ lastOp = "new"
    /\ loadResult = FALSE
    /\ lastSaved = NotSaved
    /\ markLog = <<>>
    /\ autoRun = TRUE
    /\ autoFlush = TRUE
    /\ pending = 0
    /\ saveCount = 0
    /\ observe = {"calls"}
    /\ query = NoQuery
    /\ restored = {}
    /\ markedSince = {}
    /\ saveOutcome = "none"
    /\ saveFailing = FALSE
    /\ whileFailing = {}
    /\ inFlight = {}
    /\ resume = NoResume
    /\ faults = {}
    /\ injected = 0
    /\ inbox = <<>>
    /\ sheet = <<HeaderRow>>
    /\ PipeIdle
    /\ call \in ListCalls

ListNext == ListMessagesPage

\* the loop goes on as long as its function runs
SpecList == ListInit /\ [][ListNext]_vars /\ WF_vars(ListNext)

\* raw statuses as the LLM writes them: the keys of the table, as they are
\* and in capitals with blanks around them, and other texts
RawStatuses ==
    {STATUS_MAPPINGS[k][1] : k \in 1..Len(STATUS_MAPPINGS)}
    \cup {" " \o upper(STATUS_MAPPINGS[k][1]) \o "\t" : k \in 1..Len(STATUS_MAPPINGS)}
    \cup {"", "  ", "something random", "offer", "accepted", "withdrawn",
          "we scheduled an interview", "not rejected", "n"}

\* the calls of _map_status_to_enum to come
StatusCalls == [op : {"map_status"}, done : {FALSE}, status_raw : RawStatuses, gave : {"NA"}]

\* _map_status_to_enum called on the raw status
MapStatus ==
    /\ call.op = "map_status"
    /\ ~call.done
    /\ UNCHANGED <<ledgerVars, pipeVars>>
    /\ call' = [call EXCEPT !.done = TRUE, !.gave = _map_status_to_enum(call.status_raw)]
    /\ lastOp' = "map_status"
    /\ UNCHANGED <<loadResult, lastSaved, markLog, autoRun, autoFlush, pending, saveCount,
                   observe, query, restored, markedSince, saveOutcome, saveFailing,
                   whileFailing, inFlight, resume>>

\* the extractor and the normalizers, called on their own
CallsInit ==
    /\ state = ProcessingState
    /\ unsaved_count = 0
    /\ save_interval = MaxInterval
    /\ state_file = Absent
    /\ lastOp = "new"
    /\ loadResult = FALSE
    /\ lastSaved = NotSaved
    /\ markLog = <<>>
    /\ autoRun = TRUE
    /\ autoFlush = TRUE
    /\ pending = 0
    /\ saveCount = 0
    /\ observe = {"calls"}
    /\ query = NoQuery
    /\ restored = {}
    /\ markedSince = {}
    /\ saveOutcome = "none"
    /\ saveFailing = FALSE
    /\ whileFailing = {}
    /\ inFlight = {}
    /\ resume = NoResume
    /\ call \in ExtractCalls \cup NormalizeCalls \cup RoleCalls \cup AppendCalls
                \cup StatusCalls
    /\ faults = {}
    /\ injected = 0
    /\ inbox = <<>>
    /\ sheet = <<HeaderRow>>
    /\ PipeIdle

CallsNext ==
    \/ ExtractFromEmail
    \/ NormalizeCompanyName
    \/ NormalizeRole
    \/ AppendRows
    \/ MapStatus

SpecCalls == CallsInit /\ [][CallsNext]_vars

\* the ledger over a file system that fails: open(), write() and unlink() can
\* raise, the failed saves and the ids marked meanwhile recorded
LedgerFailureInit ==
    /\ state = ProcessingState
    /\ unsaved_count = 0
    /\ save_interval \in 1..MaxInterval
    /\ state_file = Absent
    /\ lastOp = "new"
    /\ loadResult = FALSE
    /\ lastSaved = NotSaved
    /\ markLog = <<>>
    /\ autoRun = TRUE
    /\ autoFlush = TRUE
    /\ pending = 0
    /\ saveCount = 0
    /\ TraceIdle({"failures"})
    /\ faults = {"file"}
    /\ injected = 0
    /\ inbox = <<>>
    /\ sheet = <<HeaderRow>>
    /\ PipeIdle

LedgerFailureNext ==
    \/ \E id \in MessageIds, auto_save \in BOOLEAN : MarkProcessed(id, auto_save)
    \/ \E count \in 1..MaxWritten : MarkWritten(count)
    \/ Save
    \/ Load
    \/ Reset
    \/ NewManager

SpecLedgerFailure == LedgerFailureInit /\ [][LedgerFailureNext]_vars

(***************************************************************************)
(* Properties of the ledger                                                *)
(***************************************************************************)
\* C8: when the state file stems from a successful save(), a load() on a
\* fresh instance returns true and restores the processed-id set, the last
\* processed id, the since-date and both counters as they were at that save,
\* so is_processed holds for exactly the ids marked before the save.
SaveLoadRoundTrip ==
    (lastOp = "load_fresh" /\ lastSaved.valid) =>
        /\ loadResult
        /\ state.processed_ids = lastSaved.st.processed_ids
        /\ state.last_processed_id = lastSaved.st.last_processed_id
        /\ state.since_date = lastSaved.st.since_date
        /\ state.total_processed = lastSaved.st.total_processed
        /\ state.total_written = lastSaved.st.total_written
        /\ \A id \in MessageIds :
              is_processed(state, id) <=> id \in lastSaved.st.processed_ids

SaveLoadRoundTripWitness ==
    /\ lastOp = "load_fresh"
    /\ lastSaved.valid
    /\ state.processed_ids = MessageIds
    /\ state.since_date # None
    /\ state.total_processed > Cardinality(MessageIds)
    /\ state.total_written > 0

\* C9: in a session that starts without a state file and makes only
\* auto-saving mark_processed calls, with every save succeeding, the file
\* is absent while fewer than save_interval calls were made; after n calls
\* it holds exactly the ids of the first n - (n mod save_interval) calls, one
\* save having run per save_interval calls and the unsaved count having
\* restarted at each.
AutoFlushEveryInterval ==
    autoRun =>
        LET n == Len(markLog)
            flushed == n - (n % save_interval)
        IN /\ (state_file = Absent) <=> (n < save_interval)
           /\ n >= save_interval =>
                 /\ state_file.kind = "json"
                 /\ Range(state_file.data.processed_ids) = {markLog[k] : k \in 1..flushed}
           /\ saveCount = n \div save_interval
           /\ unsaved_count = n % save_interval

AutoFlushEveryIntervalWitness ==
    /\ autoRun
    /\ save_interval = 2
    /\ Len(markLog) = 4
    /\ saveCount = 2
    /\ Range(state_file.data.processed_ids) = MessageIds

\* C10: while every mark_processed call auto-saves and no save fails, after
\* a mark_processed call returns fewer than save_interval calls are missing
\* from the state file.
BoundedLoss ==
    (lastOp = "mark_processed" /\ autoFlush) => pending < save_interval

BoundedLossWitness ==
    /\ lastOp = "mark_processed"
    /\ autoFlush
    /\ save_interval = 2
    /\ pending = 1
    /\ state_file.kind = "json"
    /\ state.total_processed = 3

Unprocessed(id) == id \notin state.processed_ids

\* what get_unprocessed is to return and leave alone: the ids of the list
\* that are not processed, in the order and number the list has them, the
\* ledger and its file untouched
QueryAnswered ==
    lastOp' = "get_unprocessed" =>
        /\ query'.result = SelectSeq(query'.message_ids, Unprocessed)
        /\ UNCHANGED ledgerVars

\* C11 as stated: get_unprocessed returns the unprocessed ids of its list in
\* order, repeated ids kept, and changes nothing; is_processed holds for
\* exactly the ids passed to mark_processed since the last reset or load.
ProcessedAreMarkedSince ==
    [][/\ QueryAnswered
       /\ \A id \in MessageIds : is_processed(state', id) <=> id \in markedSince']_vars

\* C11 amended: get_unprocessed returns the unprocessed ids of its list in
\* order, repeated ids kept, and changes nothing; is_processed holds for
\* exactly the ids the last reset, load or construction left in memory (none
\* after a reset or construction, the ids of the file after a load that
\* returned true, the ids held before after a load that returned false) and
\* the ids passed to mark_processed since.
ProcessedAreRestoredOrMarked ==
    [][/\ QueryAnswered
       /\ \A id \in MessageIds :
             is_processed(state', id) <=> id \in (restored' \cup markedSince')
       /\ lastOp' \in {"reset", "new"} => restored' = {}
       /\ (lastOp' \in {"load", "load_fresh"} /\ loadResult') =>
             restored' = Range(state_file.data.processed_ids)
       /\ (lastOp' \in {"load", "load_fresh"} /\ ~loadResult') =>
             restored' = state.processed_ids]_vars

ProcessedAreRestoredOrMarkedWitness ==
    /\ query.asked
    /\ query.message_ids = <<"m2", "m1", "m3", "m2">>
    /\ query.result = <<"m2", "m3", "m2">>
    /\ restored = {"m1"}
    /\ markedSince = {}

\* C12: mark_processed(id) adds the id to the processed set, a second call
\* with the same id leaving the set as it is, and every call, for a new id or
\* not, sets last_processed_id to the id and adds one to total_processed.
MarkProcessedCounts ==
    [][lastOp' = "mark_processed" =>
          \E id \in MessageIds :
             /\ state'.processed_ids = state.processed_ids \cup {id}
             /\ id \in state.processed_ids => state'.processed_ids = state.processed_ids
             /\ state'.last_processed_id = id
             /\ state'.total_processed = state.total_processed + 1]_vars

MarkProcessedCountsWitness ==
    /\ lastOp = "mark_processed"
    /\ state.processed_ids = {"m1"}
    /\ state.last_processed_id = "m1"
    /\ state.total_processed = 2

\* C13: mark_written(count) adds count to total_written, the amounts of the
\* calls adding up, and leaves the processed set, the last id, total_processed,
\* the since-date, the unsaved count and the file as they are.
MarkWrittenOnlyAdds ==
    [][lastOp' = "mark_written" =>
          \E count \in 1..MaxWritten :
             /\ state.total_written > 0 => state'.total_written > count
             /\ state' = [state EXCEPT !.total_written = state.total_written + count]
             /\ unsaved_count' = unsaved_count
             /\ state_file' = state_file]_vars

MarkWrittenOnlyAddsWitness ==
    /\ lastOp = "mark_written"
    /\ state.total_written = 2
    /\ state.processed_ids = {"m1"}
    /\ state.since_date = "2026-01-01"
    /\ unsaved_count = 1
    /\ state_file.kind = "json"
    /\ state_file.data.total_written = 1

\* C14: load() on a file that cannot be parsed, or with no file, returns
\* false and leaves the ledger in memory (and the file) as it was.
FailedLoadKeepsLedger ==
    [][(lastOp' \in {"load", "load_fresh"} /\ state_file.kind \in {"corrupt", "absent"}) =>
          /\ ~loadResult'
          /\ state' = state
          /\ unsaved_count' = unsaved_count
          /\ state_file' = state_file]_vars

FailedLoadKeepsLedgerWitness ==
    /\ lastOp = "load"
    /\ ~loadResult
    /\ state_file = Corrupt
    /\ state.processed_ids = {"m1", "m2"}
    /\ state.total_processed = 2

\* C15: a save() whose file write raises returns with the processed set, the
\* counters and the unsaved count as they were, also when mark_processed made
\* the call; mark_processed keeps adding ids while saves fail; the next
\* save() that succeeds writes every id of the processed set, the ids marked
\* while saves were failing among them.
FailedSaveLosesNothing ==
    [][/\ (lastOp' = "save" /\ saveOutcome' # "ok") =>
             /\ state'.processed_ids = state.processed_ids
             /\ state'.total_processed = state.total_processed
             /\ state'.total_written = state.total_written
             /\ unsaved_count' = unsaved_count
       /\ (lastOp' = "mark_processed" /\ (saveFailing \/ saveOutcome' \notin {"ok", "none"})) =>
             /\ state'.processed_ids = state.processed_ids \cup {state'.last_processed_id}
             /\ state'.last_processed_id \in whileFailing'
             /\ state'.total_processed = state.total_processed + 1
             /\ saveOutcome' # "ok" => unsaved_count' = unsaved_count + 1
       /\ saveOutcome' = "ok" =>
             /\ state_file'.kind = "json"
             /\ Range(state_file'.data.processed_ids) = state'.processed_ids
             /\ whileFailing' \subseteq Range(state_file'.data.processed_ids)
             /\ unsaved_count' = 0]_vars

FailedSaveLosesNothingWitness ==
    /\ lastOp = "save"
    /\ saveOutcome = "ok"
    /\ whileFailing = {"m1", "m2"}
    /\ state.processed_ids = {"m1", "m2"}

(***************************************************************************)
(* Properties of the runs: flushing, signals, order of the steps           *)
(***************************************************************************)
\* the ids the state file holds
PersistedIds ==
    IF state_file.kind = "json" THEN Range(state_file.data.processed_ids) ELSE {}

\* C17: when process_emails has returned without a signal, the saves
\* succeeding, the state file holds every id marked processed in the run, on
\* the path through the final save and on the early returns alike.
CleanReturnFlushes ==
    pc \in {"returned", "done"} => Range(emails_to_process) \subseteq PersistedIds

\* C18: a signal that arrives once the handlers are installed makes the
\* handler execute save() (the file then holds the ledger as it was when the
\* signal arrived) before the process exits; the step processes no record and
\* nothing follows it in the process: the next step is the start of a new one.
InterruptSavesAndExits ==
    [][/\ (pc' = "exited" /\ (pc # "exited" \/ run' # run)) =>
             /\ saveOutcome' \in SaveOutcomes
             /\ state'.last_run = Timestamp
             /\ saveOutcome' = "ok" =>
                   /\ state_file'.kind = "json"
                   /\ Deserialize(state_file') = state'
                   /\ unsaved_count' = 0
             /\ run' = run =>
                   /\ state'.processed_ids = state.processed_ids
                   /\ state'.total_processed = state.total_processed
                   /\ applications' = applications
             /\ run' # run => state'.processed_ids \subseteq PersistedIds
       /\ pc = "exited" => run' = run + 1]_vars

InterruptSavesAndExitsWitness ==
    /\ pc = "exited"
    /\ inFlight = {}
    /\ emails_to_process = <<"m1", "m2">>
    /\ state.processed_ids = {"m1"}
    /\ unsaved_count = 0
    /\ PersistedIds = {"m1"}

\* C19: when the signal arrives while a record is being extracted or
\* written, the record is marked processed before the ledger is saved and the
\* process exits: the ledger in memory and the state file hold its id.
InterruptCompletesRecord ==
    pc = "exited" =>
        /\ inFlight \subseteq state.processed_ids
        /\ inFlight \subseteq PersistedIds

\* record j of the batch has been through the reconciliation loop and the
\* sheet write that results from it, if any, has been attempted
ReachedPersist(j) ==
    /\ pc \in {"append", "save", "done"} \/ (pc = "reconcile" /\ j < idx)
    /\ pc \in {"save", "done"}
          \/ \A n \in 1..Len(new_applications) : new_applications[n] # applications[j]

\* C20: an id of the run is in the processed set, or in the state file, only
\* when its record has been reconciled and the sheet write for it attempted.
LedgerUpdateAfterPersist ==
    \A k \in 1..Len(emails_to_process) :
        emails_to_process[k] \in (state.processed_ids \cup PersistedIds) =>
            \E j \in 1..Len(applications) :
                /\ applications[j].email_link = EmailLink(emails_to_process[k])
                /\ ReachedPersist(j)

\* the ids of the run the extraction loop has been through
Extracted == IF pc = "extract" THEN {emails_to_process[k] : k \in 1..(idx - 1)}
             ELSE Range(emails_to_process)

ExtractionOver ==
    pc \in {"load_existing", "reconcile", "append", "save", "done"}
       \/ (pc = "returned" /\ emails_to_process # <<>>)

\* C22: once the extraction loop is over, the batch holds a record for every
\* email of the to-process list, the emails whose extraction failed included
\* (for them a placeholder with the email's link), so that each of them
\* takes part in the reconciliation.
FailedEmailHasPlaceholder ==
    ExtractionOver =>
        \A k \in 1..Len(emails_to_process) :
            \E j \in 1..Len(applications) :
                applications[j].email_link = EmailLink(emails_to_process[k])

\* the links of the emails of the to-process list
RunLinks == {EmailLink(emails_to_process[k]) : k \in 1..Len(emails_to_process)}

SinceChangeForcesChoice ==
    (/\ resume.by = "main"
     /\ ~resume.do_reset
     /\ resume.loaded.processed_ids # {}
     /\ resume.loaded.since_date \notin {None, resume.since_date}) =>
        /\ resume.prompt = "dates"
        /\ resume.choice \in {"1", "2", "3"}

\* C25: handle_resume_prompt empties the ledger exactly on the answers n
\* and 2, the since-date then being the current one; without a previous
\* session it shows no prompt, returns true and changes nothing; on y and 1
\* the processed ids are kept; it returns false exactly on 3, the ledger
\* then being as it was.
ResumePromptChoices ==
    [][lastOp' = "resume_prompt" =>
          /\ resume'.prompt = "none" <=> ~has_previous_session(state, state_file)
          /\ resume'.prompt = "none" =>
                resume'.returns /\ UNCHANGED ledgerVars
          /\ resume'.choice \in {"n", "2"} =>
                /\ state' = [ProcessingState EXCEPT !.since_date = resume'.since_date]
                /\ unsaved_count' = 0
                /\ state_file' \in {Absent, state_file}
          /\ resume'.choice \notin {"n", "2"} =>
                /\ state'.processed_ids = state.processed_ids
                /\ state'.total_processed = state.total_processed
                /\ state_file' = state_file
          /\ resume'.choice = "n" <=> (resume'.prompt = "resume" /\ state'.processed_ids = {})
          /\ resume'.choice = "2" <=> (resume'.prompt = "dates" /\ state'.processed_ids = {})
          /\ resume'.returns <=> resume'.choice # "3"
          /\ ~resume'.returns => UNCHANGED ledgerVars]_vars

ResumePromptChoicesWitness ==
    /\ lastOp = "resume_prompt"
    /\ resume.prompt = "dates"
    /\ resume.choice = "2"
    /\ resume.loaded.processed_ids = {"m1", "m2"}
    /\ resume.loaded.since_date = "2026-01-01"
    /\ state = [ProcessingState EXCEPT !.since_date = "2026-02-01"]
    /\ state_file = Absent

(***************************************************************************)
(* Properties of the sheet client                                          *)
(***************************************************************************)
\* the sheet has just been read, successfully, and not been written since
SnapshotFresh == pc = "reconcile" /\ idx = 1 /\ clean

\* the key of sheet row r
RowKey(r) == <<company_key[sheet[r][1]], role_key[sheet[r][3]]>>

\* C26: the snapshot read from the sheet has an entry for exactly the keys
\* of the data rows (the header left out) whose company key and role key are
\* both non-empty; the entry of a key holds the 1-based sheet index of a row
\* with that key, that row's link and its status cell read as a status of
\* the fixed set, as Unknown when the cell holds none of their values; rows
\* that share a key have one entry between them.
SnapshotMapsRows ==
    SnapshotFresh =>
        /\ \A r \in 2..Len(sheet) : BothHalves(RowKey(r)) <=> RowKey(r) \in DOMAIN snapshot
        /\ \A key \in DOMAIN snapshot :
              \E r \in 2..Len(sheet) :
                 /\ RowKey(r) = key
                 /\ snapshot[key].row_idx = r
                 /\ snapshot[key].email_link = sheet[r][5]
                 /\ snapshot[key].status \in Status
                 /\ IF \E st \in Status : StatusValue(st) = sheet[r][2]
                    THEN StatusValue(snapshot[key].status) = sheet[r][2]
                    ELSE snapshot[key].status = "NA"
        /\ Cardinality(DOMAIN snapshot) =
              Cardinality({RowKey(r) : r \in {q \in 2..Len(sheet) : BothHalves(RowKey(q))}})

SnapshotMapsRowsWitness ==
    /\ SnapshotFresh
    /\ Len(sheet) = 3
    /\ sheet[2][2] = "Offer"
    /\ RowKey(2) = RowKey(3)
    /\ snapshot[RowKey(2)].row_idx \in {2, 3}
    /\ Cardinality(DOMAIN snapshot) = 1

\* the update_row call of this step raised
UpdateFailed ==
    /\ Len(updateLog') = Len(updateLog) + 1
    /\ updateLog'[Len(updateLog')].outcome # "ok"

\* the append_rows call of this step raised: rows were to be appended and
\* not all of them were
AppendFailed ==
    /\ pc = "append" /\ pc' # "exited"
    /\ Len(sheet') < Len(sheet) + Len(new_applications)

\* C27: an update_row call that raises leaves updates_count as it is, the
\* run is marked as having met a sheet error, the loop goes on to the next
\* record and then to the append of the new records; an append_rows call
\* that raises leaves total_written as it is, and what it raises is caught by
\* process_emails as a SheetsClientError, the run going on to the final
\* save; an update or append that succeeds is counted.
SinkErrorsSurface ==
    [][/\ UpdateFailed =>
             /\ updates_count' = updates_count
             /\ ~clean'
             /\ UNCHANGED <<ledgerVars, new_applications>>
             /\ idx < Len(applications) => (pc' = "reconcile" /\ idx' = idx + 1)
             /\ idx = Len(applications) => pc' = "append"
       /\ (Len(updateLog') = Len(updateLog) + 1 /\ ~UpdateFailed) =>
             updates_count' = updates_count + 1
       /\ (pc = "append" /\ pc' # "exited") =>
             /\ pc' = "save"
             /\ appendLog' = new_applications
       /\ AppendFailed =>
             /\ ~clean'
             /\ state'.total_written = state.total_written
       /\ (pc = "append" /\ pc' = "save" /\ ~AppendFailed) =>
             /\ state'.total_written = state.total_written + Len(new_applications)
             /\ sheet' = sheet \o RowsOf(new_applications)]_vars

SinkErrorsSurfaceWitness ==
    /\ pc = "done"
    /\ Len(updateLog) = 1
    /\ updateLog[1].outcome = "link_error"
    /\ updates_count = 0
    /\ Len(appendLog) = 1
    /\ sheet[Len(sheet)] = job_to_row(appendLog[1])
    /\ state.total_written = 1

\* a step that is an invocation of main() in which the environment has made
\* a check fail and sent no signal (the state file can be written in these
\* runs): the prerequisite check has failed
PrerequisiteFailure == run' = run + 1 /\ injected' = injected + 1 /\ pc' # "exited"

\* C28: an invocation of main() whose prerequisite check fails returns 1
\* with no email fetched or extracted, no id marked processed (the ledger
\* holds what the file held, or nothing under --reset), the sheet and the
\* content of the state file untouched; nothing follows in that process.
ConfigurationFailureIsFatal ==
    [][/\ PrerequisiteFailure =>
             /\ pc' = "failed"
             /\ emails_to_process' = <<>>
             /\ applications' = <<>>
             /\ UNCHANGED <<sheet, extracted>>
             /\ state'.processed_ids \in {PersistedIds, {}}
             /\ state'.total_processed \in
                   {0, IF state_file.kind = "json" THEN state_file.data.total_processed ELSE 0}
             /\ state_file' \in {state_file, Absent}
       /\ pc = "failed" => run' = run + 1]_vars

ConfigurationFailureIsFatalWitness ==
    /\ pc = "failed"
    /\ run = 2
    /\ inbox = <<"m1", "m2">>
    /\ emails_to_process = <<>>
    /\ state.processed_ids = {"m1", "m2"}
    /\ PersistedIds = {"m1", "m2"}
    /\ prevRun.ran

CompanyKeyIgnoresWriting ==
    /\ normalize_company_name("Google, Inc.") = normalize_company_name("Google LLC")
    /\ normalize_company_name("Google LLC") = normalize_company_name("google")
    /\ normalize_company_name("") = ""
    /\ (call.op = "normalize_company_name" /\ call.done) =>
           call.gave.other_key = call.gave.key

\* a word stands in the key as a whole word
HasWord(key, w) == \E i \in 1..Len(key) : WordAt(key, i, w)

\* C31: the key of a role written with the abbreviations, with "internship",
\* in another case and with a season and a year in front of it or behind it
\* is the key of its long form: "SWE Intern Summer 2026" and "Software
\* Engineer Intern" have one key; the key holds no abbreviation, no
\* "internship" and no 20xx year as a word, no blank at its ends and no two
\* blanks in a row.
RoleKeyIgnoresWriting ==
    (call.op = "normalize_role" /\ call.done) =>
        LET key == call.gave.other_key
        IN /\ normalize_role("SWE Intern Summer 2026")
                = normalize_role("Software Engineer Intern")
           /\ normalize_role("") = ""
           /\ key = call.gave.key
           /\ \A k \in 1..Len(abbreviations) : ~HasWord(key, abbreviations[k].abbrev)
           /\ ~HasWord(key, "internship")
           /\ \A i \in 1..Len(key) : ~YearAt(key, i)
           /\ key = strip(key)
           /\ ~Contains(key, "  ")
           /\ key = lower(key)

RoleKeyIgnoresWritingWitness ==
    /\ call.op = "normalize_role"
    /\ call.done
    /\ call.role.short = "SDE Internship"
    /\ call.writing = [case |-> "upper", front |-> "fall2025", back |-> "Summer 2026"]
    /\ call.gave.other_key = "software development engineer intern"

\* C32: append_rows(jobs) of a client with batch size b calls the Sheets API
\* ceil(len(jobs)/b) times when no call fails, each call with at most b rows
\* and at least one, the rows of the calls in a row being the rows of the
\* jobs in their order, and returns len(jobs); for no jobs it makes no call
\* and returns 0.
AppendRowsBatches ==
    (call.op = "append_rows" /\ call.done /\ call.gave.raised = "none") =>
        LET n == Len(call.jobs)
            b == call.batch_size
            calls == call.gave.calls
        IN /\ Len(calls) = (n + b - 1) \div b
           /\ \A k \in 1..Len(calls) : Len(calls[k]) \in 1..b
           /\ Flatten(calls, Len(calls)) = [k \in 1..n |-> job_to_row(call.jobs[k])]
           /\ call.gave.appended = Flatten(calls, Len(calls))
           /\ call.gave.returns = n
           /\ n = 0 => calls = <<>> /\ call.gave.returns = 0
           /\ append_rows(<<HeaderRow>>, call.jobs, b, Len(calls))
                 = <<HeaderRow>> \o call.gave.appended

AppendRowsBatchesWitness ==
    /\ call.op = "append_rows"
    /\ call.done
    /\ Len(call.jobs) = 5
    /\ call.batch_size = 2
    /\ call.gave.raised = "none"
    /\ Len(call.gave.calls) = 3
    /\ Len(call.gave.calls[3]) = 1
    /\ call.gave.returns = 5

\* the pages up to the first one that carries no token
Chain(pages) ==
    SubSeq(pages, 1, CHOOSE p \in 1..Len(pages) :
                         /\ ~pages[p].token
                         /\ \A q \in 1..(p - 1) : pages[q].token)

\* the messages of the first n pages in a row
RECURSIVE Concat(_, _)
Concat(pages, n) == IF n = 0 THEN <<>> ELSE Concat(pages, n - 1) \o pages[n].messages

\* what holds of a listing in progress and of one that has returned
ListingCapped ==
    call.op = "list_messages" =>
        LET chain == Chain(call.pages)
            whole == Concat(chain, Len(chain))
            cap == call.max_results
        IN /\ call.requested <= Len(chain)
           /\ call.all_messages = Concat(chain, call.requested)
           /\ call.done =>
                 /\ call.requested >= 1
                 /\ ~cap.given => call.returns = whole /\ call.requested = Len(chain)
                 /\ cap.given =>
                       /\ Len(call.returns) <= cap.count
                       /\ call.returns = SubSeq(whole, 1, Len(call.returns))
                       /\ Len(call.returns) < cap.count => call.returns = whole
                       /\ \A k \in 1..(call.requested - 1) :
                             Len(Concat(chain, k)) < cap.count

\* C33: _list_messages_with_retry returns, whatever pages the query has: it
\* requests the pages one after the other up to the first one without a
\* next-page token and returns their messages in that order; with
\* max_results it returns at most max_results of them, a prefix holding all
\* of them when they are fewer, and requests no page after the one with
\* which the messages listed so far have reached max_results (the first page
\* is requested in every case).
ListingTerminatesCapped ==
    /\ []ListingCapped
    /\ (call.op = "list_messages") ~> (call.op = "list_messages" /\ call.done)

ListingTerminatesCappedWitness ==
    /\ call.op = "list_messages"
    /\ call.done
    /\ Len(call.pages) = 3
    /\ call.pages[1].token /\ call.pages[2].token
    /\ call.max_results = [given |-> TRUE, count |-> 3]
    /\ call.requested = 2
    /\ Len(call.all_messages) = 4
    /\ call.returns = <<1, 2, 3>>

\* C34: _map_status_to_enum gives a status for every raw status: the status
\* of the key when the raw status, lower-cased and trimmed, is a key of the
\* table; N/A when it is empty, and when no key is part of it and it is part
\* of no key.
StatusMappingTotal ==
    (call.op = "map_status" /\ call.done) =>
        LET status_lower == strip(lower(call.status_raw))
            keys == 1..Len(STATUS_MAPPINGS)
        IN /\ call.gave \in Status
           /\ \A k \in keys :
                 STATUS_MAPPINGS[k][1] = status_lower => call.gave = STATUS_MAPPINGS[k][2]
           /\ call.status_raw = "" => call.gave = "NA"
           /\ (\A k \in keys : /\ ~Contains(status_lower, STATUS_MAPPINGS[k][1])
                                 /\ ~Contains(STATUS_MAPPINGS[k][1], status_lower))
                 => call.gave = "NA"

\* the sheet holds a row with the IdentityKey of the record
HasRowFor(app) == \E r \in 2..Len(sheet) : RowKey(r) = IdentityKey(app)

\* the email the record was extracted from
EmailOf(app) == CHOOSE id \in Range(inbox) : EmailLink(id) = app.email_link

\* C35: when a signal has ended a run, every record the run extracted whose
\* id the state file holds has a row with its IdentityKey in the sheet; and
\* the run that follows over the same inbox skips no email whose record was
\* extracted in the interrupted run and has no such row, so that the sheet
\* holds a row for every extracted email once a run completes.
NoLossAcrossInterrupt ==
    [][pc = "exited" =>
         /\ \A j \in 1..Len(applications) :
               EmailOf(applications[j]) \in PersistedIds => HasRowFor(applications[j])
         /\ (run' = run + 1 /\ pc' \notin {"exited", "failed"}) =>
               \A j \in 1..Len(applications) :
                   EmailOf(applications[j]) \notin Range(emails_to_process')
                       => HasRowFor(applications[j])]_vars

\* the ranks the batch and the snapshot hold for the key
RanksFor(key) ==
    {Rank(applications[i].status) : i \in Holders(key)}
    \cup (IF key \in DOMAIN snapshot THEN {Rank(snapshot[key].status)} ELSE {})

\* the rows that hold the key for the run: the row the snapshot was loaded
\* from, any row with the key when the snapshot has none
RowsHolding(key) ==
    IF key \in DOMAIN snapshot THEN {snapshot[key].row_idx}
    ELSE {r \in 2..Len(sheet) : RowKey(r) = key}

\* C36: after a run whose sheet calls all succeeded, for every key of the
\* batch with both halves the sheet holds the key with the highest-ranked
\* status among the one loaded for the key and those of the batch records
\* with the key, in whatever order the batch carries them.
OrderIndependence ==
    (pc = "done" /\ clean) =>
        \A key \in BatchKeys :
            BothHalves(key) =>
                LET best == CHOOSE m \in RanksFor(key) : \A n \in RanksFor(key) : n <= m
                IN /\ RowsHolding(key) # {}
                   /\ \A r \in RowsHolding(key) : Rank(ParseStatus(sheet[r][2])) = best

\* C37: every step of a run adds to total_written the number of rows it
\* appends to the sheet, also when a batch of append_rows fails after earlier
\* batches were appended: over the run the count grows by the rows appended.
WrittenCountAccurate ==
    [][run' = run =>
          state'.total_written - state.total_written = Len(sheet') - Len(sheet)]_vars

\* C38: a save() whose file write raises, called directly or by
\* mark_processed, leaves the persisted form as it was: a load() after it
\* gives what a load() before it gave, the state of the last save() that
\* succeeded.
FailedSaveKeepsFile ==
    [][(lastOp' \in {"save", "mark_processed"} /\ saveOutcome' \notin {"ok", "none"}) =>
          /\ load(ProcessingState, state_file') = load(ProcessingState, state_file)
          /\ load_returns(state_file') = load_returns(state_file)]_vars

(***************************************************************************)
(* state/__init__.py, main.py : a signal that arrives inside save()        *)
(***************************************************************************)
\* instants of the clock, in the order they pass
Clock ==
    <<[sec |-> 0, us |-> 250], [sec |-> 0, us |-> 750],
      [sec |-> 1, us |-> 0], [sec |-> 1, us |-> 100]>>

RECURSIVE Zeros(_)
Zeros(n) == IF n <= 0 THEN "" ELSE "0" \o Zeros(n - 1)

\* datetime.isoformat(): the microseconds are left out when they are zero
isoformat(t) ==
    "2026-01-01T10:00:0" \o ToString(t.sec) \o
    (IF t.us = 0 THEN "" ELSE "." \o Zeros(6 - Len(ToString(t.us))) \o ToString(t.us))

Quote(s) == "\"" \o s \o "\""
JsonStr(v) == IF v = None THEN "null" ELSE Quote(v)

\* the chunks json.dump(data, f, indent=2) writes for the list of ids
RECURSIVE IdChunks(_, _)
IdChunks(ids, k) ==
    IF k > Len(ids) THEN <<"\n  ", "]">>
    ELSE <<(IF k = 1 THEN "[\n    " ELSE ",\n    ") \o Quote(ids[k])>> \o IdChunks(ids, k + 1)

\* the chunks before the value of last_run
UpToLastRun(data) ==
    <<"{", "\n  ", Quote("processed_ids"), ": ">> \o
    (IF data.processed_ids = <<>> THEN <<"[]">> ELSE IdChunks(data.processed_ids, 1)) \o
    <<",\n  ", Quote("last_processed_id"), ": ", JsonStr(data.last_processed_id),
      ",\n  ", Quote("last_run"), ": ">>

\* the chunks after the value of last_run
AfterLastRun(data) ==
    <<",\n  ", Quote("since_date"), ": ", JsonStr(data.since_date),
      ",\n  ", Quote("total_processed"), ": ", ToString(data.total_processed),
      ",\n  ", Quote("total_written"), ": ", ToString(data.total_written), "\n", "}">>

\* the chunks json.dump(data, f, indent=2) writes, one f.write() each
iterencode(data) == UpToLastRun(data) \o <<JsonStr(data.last_run)>> \o AfterLastRun(data)

\* the first n chunks, as they lie in the buffer of the file object
RECURSIVE Join(_, _)
Join(chunks, n) == IF n = 0 THEN "" ELSE Join(chunks, n - 1) \o chunks[n]

\* a JSON string without escapes, or null
JsonStrText(m) ==
    \/ m = "null"
    \/ /\ Len(m) >= 2
       /\ SubSeq(m, 1, 1) = "\""
       /\ SubSeq(m, Len(m), Len(m)) = "\""
       /\ \A k \in 2..(Len(m) - 1) : SubSeq(m, k, k) \notin {"\"", "\\", "\n"}

\* the objects a state file of these message ids can hold, last_run left open
Shapes ==
    {[ProcessingState EXCEPT !.processed_ids = order, !.last_processed_id = last,
                             !.total_processed = n] :
        order \in UNION {Orders(S) : S \in SUBSET MessageIds},
        last \in MessageIds \cup {None}, n \in 0..Cardinality(MessageIds)}

\* whether text is the document of shape with some value of last_run
Holds(text, shape) ==
    LET head == Join(UpToLastRun(shape), Len(UpToLastRun(shape)))
        tail == Join(AfterLastRun(shape), Len(AfterLastRun(shape)))
    IN /\ Len(text) >= Len(head) + Len(tail)
       /\ SubSeq(text, 1, Len(head)) = head
       /\ SubSeq(text, Len(text) - Len(tail) + 1, Len(text)) = tail
       /\ JsonStrText(SubSeq(text, Len(head) + 1, Len(text) - Len(tail)))

\* json.load() of the text of the state file
json_load(text) ==
    IF \E shape \in Shapes : Holds(text, shape)
    THEN LET shape == CHOOSE d \in Shapes : Holds(text, d)
             head == Join(UpToLastRun(shape), Len(UpToLastRun(shape)))
             tail == Join(AfterLastRun(shape), Len(AfterLastRun(shape)))
             m == SubSeq(text, Len(head) + 1, Len(text) - Len(tail))
         IN JsonFile([shape EXCEPT !.last_run =
                         IF m = "null" THEN None ELSE SubSeq(m, 2, Len(m) - 1)])
    ELSE Corrupt

\* f.write() at the start of a file that holds text, the file not truncated
Overlay(buffer, text) ==
    IF Len(buffer) >= Len(text) THEN buffer
    ELSE buffer \o SubSeq(text, Len(buffer) + 1, Len(text))

\* model_dump() of the ledger with the ids in the order list() gives them
Dump(st, order) == [st EXCEPT !.processed_ids = order]

\* a save() under way: who called it, the order of the ids, the instants of
\* this save() and of the one the handler makes
FlushCalls ==
    {[op |-> "save", done |-> FALSE, by |-> by, ids |-> order,
      stamps |-> <<isoformat(Clock[ij[1]]), isoformat(Clock[ij[2]])>>,
      at |-> "called", written |-> 0, disk |-> "", signal |-> FALSE] :
        by \in {"mark_processed", "save"},
        order \in UNION {Orders(S) : S \in (SUBSET MessageIds) \ {{}}},
        ij \in {p \in (1..Len(Clock)) \X (1..Len(Clock)) : p[1] < p[2]}}

\* the ledger when save() is called: every id of the call marked
FlushInit ==
    /\ call \in FlushCalls
    /\ state = [ProcessingState EXCEPT !.processed_ids = Range(call.ids),
                                       !.last_processed_id = call.ids[Len(call.ids)],
                                       !.total_processed = Len(call.ids)]
    /\ unsaved_count = 1
    /\ save_interval = IF call.by = "mark_processed" THEN 1 ELSE MaxInterval
    /\ state_file = Absent
    /\ lastOp = "new"
    /\ loadResult = FALSE
    /\ lastSaved = NotSaved
    /\ markLog = <<>>
    /\ autoRun = TRUE
    /\ autoFlush = TRUE
    /\ pending = 0
    /\ saveCount = 0
    /\ observe = {"flush"}
    /\ query = NoQuery
    /\ restored = {}
    /\ markedSince = {}
    /\ saveOutcome = "none"
    /\ saveFailing = FALSE
    /\ whileFailing = {}
    /\ inFlight = {}
    /\ resume = NoResume
    /\ faults = {}
    /\ injected = 0
    /\ inbox = <<>>
    /\ sheet = <<HeaderRow>>
    /\ PipeIdle

FlushFrame ==
    UNCHANGED <<save_interval, loadResult, lastSaved, markLog, autoRun, autoFlush, pending,
                saveCount, observe, query, restored, markedSince, saveOutcome, saveFailing,
                whileFailing, inFlight, resume, pipeVars>>

\* save(): the timestamp, model_dump() and open(state_file, "w")
SaveOpens ==
    /\ call.op = "save" /\ ~call.done /\ call.at = "called"
    /\ state' = [state EXCEPT !.last_run = call.stamps[1]]
    /\ call' = [call EXCEPT !.at = "open", !.disk = ""]
    /\ state_file' = json_load("")
    /\ lastOp' = "open"
    /\ UNCHANGED unsaved_count
    /\ FlushFrame

\* save(): json.dump() writes one more chunk into the buffer of the file
SaveWrites ==
    /\ call.op = "save" /\ ~call.done /\ call.at = "open"
    /\ call.written < Len(iterencode(Dump(state, call.ids)))
    /\ call' = [call EXCEPT !.written = @ + 1]
    /\ lastOp' = "write"
    /\ UNCHANGED <<state, unsaved_count, state_file>>
    /\ FlushFrame

\* save(): the with block ends, the buffer goes to the file
SaveCloses ==
    /\ call.op = "save" /\ ~call.done /\ call.at = "open"
    /\ call.written = Len(iterencode(Dump(state, call.ids)))
    /\ LET text == Join(iterencode(Dump(state, call.ids)), call.written)
       IN /\ call' = [call EXCEPT !.at = "closed", !.disk = text]
          /\ state_file' = json_load(text)
    /\ lastOp' = "close"
    /\ UNCHANGED <<state, unsaved_count>>
    /\ FlushFrame

\* save(): the unsaved count restarts and save() returns
SaveReturns ==
    /\ call.op = "save" /\ ~call.done /\ call.at = "closed"
    /\ unsaved_count' = 0
    /\ call' = [call EXCEPT !.done = TRUE]
    /\ lastOp' = "save"
    /\ UNCHANGED <<state, state_file>>
    /\ FlushFrame

\* sys.exit(0) inside the with block of the save() under way: SystemExit is
\* no Exception, the block closes its file and the buffer goes to the file
exit_closes_file(buffer, text) == Overlay(buffer, text)

\* handle_signal while save() is under way: its own save() opens the file
\* again, writes and closes it, then sys.exit(0) unwinds the save() under way
SignalDuringSave ==
    /\ call.op = "save" /\ ~call.done
    /\ LET stamped == [state EXCEPT !.last_run = call.stamps[2]]
           text == Join(iterencode(Dump(stamped, call.ids)),
                        Len(iterencode(Dump(stamped, call.ids))))
           buffer == Join(iterencode(Dump(state, call.ids)), call.written)
           left == IF call.at = "open" THEN exit_closes_file(buffer, text) ELSE text
       IN /\ state' = stamped
          /\ call' = [call EXCEPT !.done = TRUE, !.signal = TRUE, !.at = "exited",
                                  !.disk = left]
          /\ state_file' = json_load(left)
    /\ unsaved_count' = 0
    /\ lastOp' = "signal"
    /\ FlushFrame

FlushNext == SaveOpens \/ SaveWrites \/ SaveCloses \/ SaveReturns \/ SignalDuringSave

SpecFlush == FlushInit /\ [][FlushNext]_vars

\* C39: when the signal arrives while save() is under way, in the auto-flush
\* of mark_processed or in the final save, the file left after the exit can
\* be loaded and holds every id that was marked processed before the signal.
FlushInterruptKeepsFile ==
    (call.op = "save" /\ call.signal) =>
        /\ load_returns(state_file)
        /\ state.processed_ids \subseteq load(ProcessingState, state_file).processed_ids
====
